---- MODULE Spec2Model ----
(***************************************************************************)
(* The ED workstation (apps/web/src/App.tsx): a React component over a     *)
(* remote relational store (supabase) and an AI function.                  *)
(*                                                                         *)
(* db     the store: one set of rows per table of the schema               *)
(* ui     the component's useState cells, under their source names         *)
(* tasks  the async handler invocations in flight: each is suspended at    *)
(*        one await (pc) and carries the values its closure captured       *)
(* alert  the alert() dialog on screen, "none" when there is none.  alert() *)
(*        blocks the page: nothing else runs until the user dismisses it.  *)
(*                                                                         *)
(* A step is either a user event (the synchronous part of a handler, up to *)
(* its first await, followed by the effects React runs for the state it    *)
(* changed) or the settling of one awaited request (the store executes the *)
(* request and the handler runs on to its next await).                     *)
(***************************************************************************)
EXTENDS Integers, FiniteSets, Sequences, TLC

VARIABLES db, ui, tasks, alert

vars == <<db, ui, tasks, alert>>

----------------------------------------------------------------------------
(* Bounds of the model. *)

\* pieces of work one behaviour may hold on top of what the store holds at
\* the start: forms in use, writes in flight and writes made
MaxWork == 1
\* handler invocations that may be in flight together
MaxInflight == 2

----------------------------------------------------------------------------
(* Values. *)

\* null for ids (ids are positive)
Null == 0
\* null for a row-valued cell (latestAiRun, editingNote)
NullRow == [null |-> TRUE]
\* null and undefined for text columns (text is a sequence of characters)
NullStr == <<"null">>
Undefined == <<"undefined">>

Chars == {"a", "B", " ", "\t"}

IsWhitespace(c) == c \in {" ", "\t"}

\* String.prototype.toUpperCase, on the alphabet
UpperChar(c) == IF c = "a" THEN "A" ELSE c

ToUpperCase(s) == [i \in 1..Len(s) |-> UpperChar(s[i])]

RECURSIVE TrimStart(_)
TrimStart(s) ==
    IF s # <<>> /\ IsWhitespace(Head(s)) THEN TrimStart(Tail(s)) ELSE s

RECURSIVE TrimEnd(_)
TrimEnd(s) ==
    IF s # <<>> /\ IsWhitespace(s[Len(s)])
    THEN TrimEnd(SubSeq(s, 1, Len(s) - 1))
    ELSE s

\* String.prototype.trim
Trim(s) == TrimEnd(TrimStart(s))

\* String.prototype.split(' '): cut at every U+0020, empty parts kept
RECURSIVE SplitSpace(_)
SplitSpace(s) ==
    IF \E i \in 1..Len(s) : s[i] = " "
    THEN LET i == CHOOSE k \in 1..Len(s) :
                      s[k] = " " /\ \A j \in 1..(k - 1) : s[j] # " "
         IN  <<SubSeq(s, 1, i - 1)>> \o SplitSpace(SubSeq(s, i + 1, Len(s)))
    ELSE <<s>>

\* Array.prototype.join(' ')
RECURSIVE JoinSpace(_)
JoinSpace(parts) ==
    IF parts = <<>> THEN <<>>
    ELSE IF Len(parts) = 1 THEN parts[1]
    ELSE parts[1] \o <<" ">> \o JoinSpace(Tail(parts))

GeneralOrder == <<"General Order">>

\* addOrder: const [codeRaw, ...nameParts] = val.split(' ')
OrderCodeRaw(val) == Head(SplitSpace(val))

OrderNameParts(val) == Tail(SplitSpace(val))

\* addOrder: code = codeRaw ? codeRaw.toUpperCase() : null
OrderCode(val) ==
    IF OrderCodeRaw(val) # <<>> THEN ToUpperCase(OrderCodeRaw(val)) ELSE NullStr

\* addOrder: name = nameParts.join(' ') || 'General Order'
OrderName(val) ==
    IF JoinSpace(OrderNameParts(val)) # <<>>
    THEN JoinSpace(OrderNameParts(val))
    ELSE GeneralOrder

----------------------------------------------------------------------------
(* The store.  Ids are generated by the store; no handler deletes a row,   *)
(* so the n-th row of a table gets id n.                                   *)

Tables == {"patients", "encounters", "notes", "orders", "results",
           "ddx_entries", "ai_runs", "ai_suggestions", "patient_events"}

NextId(table) == Cardinality(db[table]) + 1

\* .eq('encounter_id', encounterId) on a table
RowsOf(table, encounterId) == {r \in db[table] : r.encounter_id = encounterId}

MaxOf(S) == CHOOSE x \in S : \A y \in S : y <= x

\* insert([row]): the store adds the id
Inserted(table, row) == [db EXCEPT ![table] = @ \cup {row}]

EmptyUi ==
    [ patients |-> {}, selectedPatientId |-> Null,
      encounters |-> {}, selectedEncounterId |-> Null,
      notes |-> {}, orders |-> {}, results |-> {}, ddx |-> {},
      isBusy |-> FALSE,
      isPatientModalOpen |-> FALSE, newPatientName |-> <<>>,
      editingNote |-> NullRow,
      orderInput |-> <<>>, resultName |-> <<>>, ddxName |-> <<>>,
      isAiLoading |-> FALSE, latestAiRun |-> NullRow, aiSuggestions |-> {},
      selectedAiOrderSuggestionIds |-> {} ]

\* logEvent's row: entity_table ?? null, entity_id ?? null
EventRow(encounterId, actorType, eventType, entityTable, entityId) ==
    [ encounter_id |-> encounterId, actor_type |-> actorType, event_type |-> eventType,
      entity_table |-> entityTable, entity_id |-> entityId ]

\* null for the numeric column prob
NullNum == -1

\* a ddx_entries row
DdxRow(encounterId, source, name, prob, reason) ==
    [ encounter_id |-> encounterId, source |-> source, name |-> name,
      prob |-> prob, reason |-> reason ]

\* what supabase.functions.invoke('ai-analyze') may hand back as data: the
\* function answers JSON.parse of the model's text, whatever that is
WellFormed ==
    [ kind |-> "object",
      diagnoses |-> << [name |-> <<"AMI">>, prob |-> 85, reason |-> Undefined] >>,
      recommendations |-> << [code |-> <<"BLOOD002">>, name |-> <<"Troponin">>,
                              reason |-> <<"serial">>],
                             [code |-> Undefined, name |-> <<"CT">>,
                              reason |-> Undefined] >> ]

AiResults ==
    { WellFormed,
      \* {}: neither field present
      [ kind |-> "empty" ],
      \* null
      [ kind |-> "null" ],
      \* an object whose diagnoses is not an array
      [ kind |-> "malformed" ] }

\* result.diagnoses ?? [] and result.recommendations ?? []
Diagnoses(result) == IF result.kind = "object" THEN result.diagnoses ELSE <<>>

Recommendations(result) == IF result.kind = "object" THEN result.recommendations ELSE <<>>

\* x ?? null
OrNull(x) == IF x = Undefined THEN NullStr ELSE x

OrNullNum(x) == IF x = -2 THEN NullNum ELSE x

\* an ai_suggestions row
SuggestionRow(encounterId, aiRunId, type, code, name, prob, reason) ==
    [ encounter_id |-> encounterId, ai_run_id |-> aiRunId, suggestion_type |-> type,
      code |-> code, name |-> name, prob |-> prob, reason |-> reason ]

\* runAi: diagRows
DiagRows(t) ==
    [ i \in 1..Len(Diagnoses(t.result)) |->
        LET d == Diagnoses(t.result)[i]
        IN  SuggestionRow(t.enc, t.aiRunId, "diagnosis", NullStr, d.name,
                          OrNullNum(d.prob), OrNull(d.reason)) ]

\* runAi: orderRows
OrderRows(t) ==
    [ i \in 1..Len(Recommendations(t.result)) |->
        LET r == Recommendations(t.result)[i]
        IN  SuggestionRow(t.enc, t.aiRunId, "order", OrNull(r.code), r.name,
                          NullNum, OrNull(r.reason)) ]

\* ddxRows without the probability
DdxRowsNoProb(t) ==
    [ i \in 1..Len(Diagnoses(t.result)) |->
        LET d == Diagnoses(t.result)[i]
        IN  DdxRow(t.enc, "ai", d.name, NullNum, OrNull(d.reason)) ]

\* runAi: ddxRows
DdxRows(t) ==
    [ i \in 1..Len(Diagnoses(t.result)) |->
        LET d == Diagnoses(t.result)[i]
        IN  DdxRow(t.enc, "ai", d.name, OrNullNum(d.prob), OrNull(d.reason)) ]

\* a store left by an earlier session on one patient's encounter: a note and
\* one completed AI run with its suggestions, AI DDX rows and events
InitRun == [enc |-> 1, aiRunId |-> 1, result |-> WellFormed]

InitDb ==
    [ patients |-> {[id |-> 1, name |-> <<"a">>]},
      encounters |-> {[id |-> 1, patient_id |-> 1]},
      notes |-> {[id |-> 1, encounter_id |-> 1, content |-> <<"a">>]},
      orders |-> {}, results |-> {},
      ddx_entries |-> {[id |-> i] @@ DdxRows(InitRun)[i] : i \in 1..Len(DdxRows(InitRun))},
      ai_runs |-> {[ id |-> 1, encounter_id |-> 1, provider |-> "gemini",
                     model |-> "gemini-2.0-flash", status |-> "completed",
                     prompt |-> [ encounter_id |-> 1, notes |-> {[content |-> <<"a">>]},
                                  orders |-> {}, results |-> {}, ddx |-> {} ],
                     response |-> WellFormed ]},
      ai_suggestions |->
          {[id |-> i] @@ (DiagRows(InitRun) \o OrderRows(InitRun))[i] :
              i \in 1..Len(DiagRows(InitRun) \o OrderRows(InitRun))},
      patient_events |->
          {[id |-> 1] @@ EventRow(1, "human", "note_created", "notes", 1),
           [id |-> 2] @@ EventRow(1, "ai", "ai_run_completed", "ai_runs", 1)} ]

\* the component after mount: every cell at its useState default and the
\* initial-load effect's fetchPatients() in flight
Init ==
    /\ db = InitDb
    /\ ui = EmptyUi
    /\ tasks = {[op |-> "fetchPatients", pc |-> "fetchPatients"]}
    /\ alert = "none"

----------------------------------------------------------------------------
(* In-flight invocations. *)

\* createEncounter ends by selecting the new encounter, which starts two loads
Load(ts) == Cardinality(ts) + Cardinality({t \in ts : t.op = "createEncounter"})

Room(n) == Load(tasks) + n <= MaxInflight

\* useEffect[selectedEncounterId], the load branch: fetchEncounterData and
\* fetchLatestAi are both called, neither is awaited
EncounterLoads(encounterId) ==
    { [op |-> "fetchEncounterData", pc |-> "fetchEncounterData", enc |-> encounterId],
      [op |-> "fetchLatestAi", pc |-> "fetchLatestAi.run", enc |-> encounterId] }

\* useEffect[selectedEncounterId], the clear branch
Cleared(u) ==
    [u EXCEPT !.notes = {}, !.orders = {}, !.results = {}, !.ddx = {},
              !.latestAiRun = NullRow, !.aiSuggestions = {},
              !.selectedAiOrderSuggestionIds = {}]

\* The effects React runs after a render in which handlers left the cells at u:
\* useEffect[selectedPatientId] and useEffect[selectedEncounterId] run when
\* their dependency differs from the previous render's.
EffectsUi(u) ==
    LET u1 == IF u.selectedPatientId # ui.selectedPatientId /\ u.selectedPatientId = Null
              THEN [u EXCEPT !.encounters = {}, !.selectedEncounterId = Null]
              ELSE u
    IN  IF u1.selectedEncounterId # ui.selectedEncounterId
        THEN IF u1.selectedEncounterId = Null
             THEN Cleared(u1)
             ELSE [u1 EXCEPT !.isBusy = TRUE]
        ELSE u1

EffectsTasks(u) ==
    (IF u.selectedPatientId # ui.selectedPatientId /\ u.selectedPatientId # Null
     THEN {[op |-> "fetchEncounters", pc |-> "fetchEncounters",
            patientId |-> u.selectedPatientId]}
     ELSE {})
    \cup
    (IF u.selectedEncounterId # ui.selectedEncounterId /\ u.selectedEncounterId # Null
     THEN EncounterLoads(u.selectedEncounterId)
     ELSE {})

\* commit a render: the cells the handler set, then the effects
Render(u, ts) ==
    /\ ui' = EffectsUi(u)
    /\ tasks' = ts \cup EffectsTasks(u)

----------------------------------------------------------------------------
(* Reads. *)

\* fetchPatients: on error the list is kept
FetchPatientsSettle(t, ok) ==
    /\ alert = "none"
    /\ t \in tasks /\ t.pc = "fetchPatients"
    /\ LET u1 == IF ok THEN [ui EXCEPT !.patients = {p.id : p \in db.patients}] ELSE ui
       IN  IF t.op = "createPatient"
           THEN \* createPatient: setSelectedPatientId(data.id)
                Render([u1 EXCEPT !.selectedPatientId = t.id], tasks \ {t})
           ELSE Render(u1, tasks \ {t})
    /\ UNCHANGED <<db, alert>>

\* fetchEncounters(patientId): on error the list is kept
FetchEncountersSettle(t, ok) ==
    /\ alert = "none"
    /\ t \in tasks /\ t.pc = "fetchEncounters"
    /\ LET u1 == IF ok
                 THEN [ui EXCEPT !.encounters =
                          {e \in db.encounters : e.patient_id = t.patientId}]
                 ELSE ui
       IN  IF t.op = "createEncounter"
           THEN \* createEncounter: setSelectedEncounterId(data.id)
                Render([u1 EXCEPT !.selectedEncounterId = t.id], tasks \ {t})
           ELSE Render(u1, tasks \ {t})
    /\ UNCHANGED <<db, alert>>

\* what one of the four selects of fetchEncounterData yields: data ?? []
Fetched(table, encounterId, failed) ==
    IF table \in failed THEN {} ELSE RowsOf(table, encounterId)

\* a return of runAi without its finally
FinishedStillLoading(t, u) == u

\* a handler returns: runAi's finally clears isAiLoading
Finished(t, u) == IF t.op = "runAi" THEN [u EXCEPT !.isAiLoading = FALSE] ELSE u

\* the reload as the last step of every handler: runAi returns after it
\* without fetchLatestAi
FetchEncounterDataSettleOnly(t, failed) ==
    /\ alert = "none"
    /\ t \in tasks /\ t.pc = "fetchEncounterData"
    /\ Render(Finished(t, [ui EXCEPT !.notes = Fetched("notes", t.enc, failed),
                                     !.orders = Fetched("orders", t.enc, failed),
                                     !.results = Fetched("results", t.enc, failed),
                                     !.ddx = Fetched("ddx_entries", t.enc, failed),
                                     !.isBusy = FALSE]),
              tasks \ {t})
    /\ UNCHANGED <<db, alert>>

\* fetchEncounterData(encounterId), after Promise.all: the four lists are
\* replaced (a failed select counts as empty) and isBusy is cleared
FetchEncounterDataSettle(t, failed) ==
    /\ alert = "none"
    /\ t \in tasks /\ t.pc = "fetchEncounterData"
    /\ LET u1 == [ui EXCEPT !.notes = Fetched("notes", t.enc, failed),
                            !.orders = Fetched("orders", t.enc, failed),
                            !.results = Fetched("results", t.enc, failed),
                            !.ddx = Fetched("ddx_entries", t.enc, failed),
                            !.isBusy = FALSE]
       IN  IF t.op = "runAi"
           THEN \* runAi: await fetchLatestAi(selectedEncounterId)
                Render(u1, (tasks \ {t}) \cup
                    {[op |-> "runAi", pc |-> "fetchLatestAi.run", enc |-> t.enc]})
           ELSE Render(u1, tasks \ {t})
    /\ UNCHANGED <<db, alert>>

\* the row fetchLatestAi selects: the newest run of the encounter, without
\* prompt and response
LatestRun(encounterId) ==
    IF RowsOf("ai_runs", encounterId) = {} THEN NullRow
    ELSE LET r == CHOOSE x \in RowsOf("ai_runs", encounterId) :
                     x.id = MaxOf({y.id : y \in RowsOf("ai_runs", encounterId)})
         IN  [id |-> r.id, encounter_id |-> r.encounter_id, provider |-> r.provider,
              model |-> r.model, status |-> r.status]

\* fetchLatestAi(encounterId), the ai_runs select
FetchLatestAiRunSettle(t, ok) ==
    /\ alert = "none"
    /\ t \in tasks /\ t.pc = "fetchLatestAi.run"
    /\ IF ~ok
       THEN Render(Finished(t, [ui EXCEPT !.latestAiRun = NullRow, !.aiSuggestions = {}]),
                   tasks \ {t})
       ELSE IF LatestRun(t.enc) = NullRow
       THEN Render(Finished(t, [ui EXCEPT !.latestAiRun = NullRow, !.aiSuggestions = {}]),
                   tasks \ {t})
       ELSE Render([ui EXCEPT !.latestAiRun = LatestRun(t.enc)],
                   (tasks \ {t}) \cup
                   {[op |-> t.op, pc |-> "fetchLatestAi.suggestions", enc |-> t.enc,
                     run |-> LatestRun(t.enc).id]})
    /\ UNCHANGED <<db, alert>>

\* fetchLatestAi(encounterId), the ai_suggestions select of that run
FetchLatestAiSuggestionsSettle(t, ok) ==
    /\ alert = "none"
    /\ t \in tasks /\ t.pc = "fetchLatestAi.suggestions"
    /\ Render(Finished(t, [ui EXCEPT !.aiSuggestions =
                  IF ok THEN {s \in db.ai_suggestions : s.ai_run_id = t.run} ELSE {}]),
              tasks \ {t})
    /\ UNCHANGED <<db, alert>>

----------------------------------------------------------------------------
(* Selection. *)

\* the patient button: setSelectedPatientId(p.id); setSelectedEncounterId(null)
SelectPatient(p) ==
    /\ alert = "none"
    /\ p \in ui.patients
    /\ p # ui.selectedPatientId => Room(1)
    /\ Render([ui EXCEPT !.selectedPatientId = p, !.selectedEncounterId = Null], tasks)
    /\ UNCHANGED <<db, alert>>

\* the encounter button: setSelectedEncounterId(e.id)
SelectEncounter(e) ==
    /\ alert = "none"
    /\ e \in {x.id : x \in ui.encounters}
    /\ e # ui.selectedEncounterId => Room(2)
    /\ Render([ui EXCEPT !.selectedEncounterId = e], tasks)
    /\ UNCHANGED <<db, alert>>

----------------------------------------------------------------------------
(* Writes.  A mutating handler that got past its guards is suspended at    *)
(* its primary write (pc "insert" or "update"), then at logEvent's insert  *)
(* (pc "logEvent"), then at the reload (pc "fetchEncounterData").          *)

\* what the handlers have written so far: the rows they added (audit rows
\* and the rows of an AI run's suggestions aside) and the note updates they logged
Written ==
    (Cardinality(db.patients) - Cardinality(InitDb.patients))
    + (Cardinality(db.encounters) - Cardinality(InitDb.encounters))
    + (Cardinality(db.notes) - Cardinality(InitDb.notes)) + Cardinality(db.orders) + Cardinality(db.results)
    + Cardinality({d \in db.ddx_entries : d.source = "human"})
    + (Cardinality(db.ai_runs) - Cardinality(InitDb.ai_runs))
    + Cardinality({e \in db.patient_events : e.event_type = "note_updated"})

\* invocations in flight whose write has not settled yet (or, for a note
\* update, is not logged yet)
Pending ==
    Cardinality({t \in tasks : t.pc \in {"insert", "update", "invoke", "insertRun"}})
    + Cardinality({t \in tasks : t.op = "saveNote" /\ t.pc = "logEvent"
                                    /\ t.event.event_type = "note_updated"})

\* the forms that hold typed text or are open
OpenForms(u) ==
    (IF u.isPatientModalOpen \/ u.newPatientName # <<>> THEN 1 ELSE 0)
    + (IF u.editingNote # NullRow THEN 1 ELSE 0)
    + (IF u.orderInput # <<>> THEN 1 ELSE 0)
    + (IF u.resultName # <<>> THEN 1 ELSE 0)
    + (IF u.ddxName # <<>> THEN 1 ELSE 0)

\* the work a behaviour holds when the cells are at u
Work(u) == OpenForms(u) + Written + Pending

\* the user's input leaves the cells at u
Typed(u) ==
    /\ Work(u) <= MaxWork
    /\ ui' = u

\* the bound on a handler that submits the open form (the form is counted)
CanSubmit == Work(ui) <= MaxWork

\* the bound on a handler without a form
CanWrite == Work(ui) < MaxWork

\* an orders row created with status "draft"
OrderRowDraft(encounterId, val) ==
    [ encounter_id |-> encounterId, code |-> OrderCode(val), name |-> OrderName(val),
      status |-> "draft", from_ai_run_id |-> Null, suggestion_id |-> Null ]

\* the row addOrder inserts for the trimmed, non-empty input val (no data
\* payload: the run and suggestion it would name are null)
OrderRow(encounterId, val) ==
    [ encounter_id |-> encounterId, code |-> OrderCode(val), name |-> OrderName(val),
      status |-> "sent", from_ai_run_id |-> Null, suggestion_id |-> Null ]

\* addOrder without its guard on the trimmed input
AddOrderUnguarded(rawInput) ==
    /\ alert = "none"
    /\ IF ui.selectedEncounterId = Null
       THEN UNCHANGED vars
       ELSE /\ Room(1) /\ CanSubmit
            /\ tasks' = tasks \cup
                  {[ op |-> "addOrder", pc |-> "insert", enc |-> ui.selectedEncounterId,
                     table |-> "orders",
                     row |-> OrderRow(ui.selectedEncounterId, Trim(rawInput)) ]}
            /\ UNCHANGED <<db, ui, alert>>

\* addOrder(rawInput), up to the orders insert
AddOrder(rawInput) ==
    /\ alert = "none"
    /\ IF ui.selectedEncounterId = Null \/ Trim(rawInput) = <<>>
       THEN UNCHANGED vars
       ELSE /\ Room(1) /\ CanSubmit
            /\ tasks' = tasks \cup
                  {[ op |-> "addOrder", pc |-> "insert", enc |-> ui.selectedEncounterId,
                     table |-> "orders",
                     row |-> OrderRow(ui.selectedEncounterId, Trim(rawInput)) ]}
            /\ UNCHANGED <<db, ui, alert>>

\* the alert each handler raises when its primary write fails
FailureAlert(op) ==
    CASE op = "createPatient" -> "createPatient failed"
      [] op = "createEncounter" -> "createEncounter failed"
      [] op = "saveNote" -> "save note failed"
      [] op = "addOrder" -> "insert order failed"
      [] op = "addResult" -> "insert result failed"
      [] op = "addHumanDdx" -> "insert ddx failed"
      [] op = "applyAiOrders" -> "applyAiOrders insert failed"
      [] OTHER -> "none"

\* the event a handler logs for the row its primary write returned
EventOf(t, entityId) ==
    CASE t.op = "addOrder" ->
            EventRow(t.enc, "human", "order_created", "orders", entityId)
      [] t.op = "addResult" ->
            EventRow(t.enc, "human", "result_created", "results", entityId)
      [] t.op = "addHumanDdx" ->
            EventRow(t.enc, "human", "ddx_added", "ddx_entries", entityId)
      [] t.op = "saveNote" ->
            EventRow(t.enc, "human",
                     IF t.pc = "update" THEN "note_updated" ELSE "note_created",
                     "notes", entityId)

\* the single-row insert of saveNote, addOrder, addResult, addHumanDdx settles:
\* on error alert and return, else call logEvent with the returned id
InsertSettle(t, ok) ==
    /\ alert = "none"
    /\ t \in tasks /\ t.pc = "insert"
    /\ t.op \in {"saveNote", "addOrder", "addResult", "addHumanDdx"}
    /\ IF ok
       THEN /\ db' = Inserted(t.table, [id |-> NextId(t.table)] @@ t.row)
            /\ tasks' = (tasks \ {t}) \cup
                  {[ op |-> t.op, pc |-> "logEvent", enc |-> t.enc,
                     event |-> EventOf(t, NextId(t.table)), rest |-> <<>> ]}
            /\ UNCHANGED <<ui, alert>>
       ELSE /\ alert' = FailureAlert(t.op)
              /\ tasks' = tasks \ {t}
              /\ UNCHANGED <<db, ui>>

\* what a handler does after its logEvent call returned, up to the reload it
\* awaits: the form reset, then fetchEncounterData (which sets isBusy)
AfterLogEvent(t, u) ==
    LET u1 == CASE t.op = "saveNote" -> [u EXCEPT !.editingNote = NullRow]
                [] t.op = "addOrder" -> [u EXCEPT !.orderInput = <<>>]
                [] t.op = "addResult" -> [u EXCEPT !.resultName = <<>>]
                [] t.op = "addHumanDdx" -> [u EXCEPT !.ddxName = <<>>]
                [] t.op = "applyAiOrders" -> [u EXCEPT !.selectedAiOrderSuggestionIds = {}]
    IN  [u1 EXCEPT !.isBusy = TRUE]

\* logEvent's insert settles, and a failed one ends the handler with an alert
LogEventSettleStrict(t, ok) ==
    /\ alert = "none"
    /\ t \in tasks /\ t.pc = "logEvent"
    /\ t.op \in {"saveNote", "addOrder", "addResult", "addHumanDdx"}
    /\ IF ok
       THEN /\ db' = Inserted("patient_events",
                              [id |-> NextId("patient_events")] @@ t.event)
            /\ Render(AfterLogEvent(t, ui),
                      (tasks \ {t}) \cup
                      {[op |-> t.op, pc |-> "fetchEncounterData", enc |-> t.enc]})
            /\ UNCHANGED alert
       ELSE /\ alert' = "logEvent failed"
            /\ tasks' = tasks \ {t}
            /\ UNCHANGED <<db, ui>>

\* logEvent's insert settles.  Its result is not looked at and a throw is
\* caught: the caller goes on either way.
LogEventSettle(t, ok) ==
    /\ alert = "none"
    /\ t \in tasks /\ t.pc = "logEvent"
    /\ t.op \in {"saveNote", "addOrder", "addResult", "addHumanDdx"}
    /\ db' = IF ok
             THEN Inserted("patient_events", [id |-> NextId("patient_events")] @@ t.event)
             ELSE db
    /\ Render(AfterLogEvent(t, ui),
              (tasks \ {t}) \cup
              {[op |-> t.op, pc |-> "fetchEncounterData", enc |-> t.enc]})
    /\ UNCHANGED alert

----------------------------------------------------------------------------
(* Patients and encounters. *)

\* createPatient, up to the patients insert
CreatePatient ==
    /\ alert = "none"
    /\ IF Trim(ui.newPatientName) = <<>>
       THEN UNCHANGED vars
       ELSE /\ Room(1) /\ CanSubmit
            /\ tasks' = tasks \cup
                  {[ op |-> "createPatient", pc |-> "insert",
                     row |-> [name |-> Trim(ui.newPatientName)] ]}
            /\ UNCHANGED <<db, ui, alert>>

\* createPatient's insert settles: on error alert and return, else close the
\* modal, reset the form and await fetchPatients()
CreatePatientInsertSettle(t, ok) ==
    /\ alert = "none"
    /\ t \in tasks /\ t.op = "createPatient" /\ t.pc = "insert"
    /\ IF ok
       THEN /\ db' = Inserted("patients", [id |-> NextId("patients")] @@ t.row)
            /\ Render([ui EXCEPT !.isPatientModalOpen = FALSE, !.newPatientName = <<>>],
                      (tasks \ {t}) \cup
                      {[ op |-> "createPatient", pc |-> "fetchPatients",
                         id |-> NextId("patients") ]})
            /\ UNCHANGED alert
       ELSE /\ alert' = FailureAlert(t.op)
              /\ tasks' = tasks \ {t}
              /\ UNCHANGED <<db, ui>>

\* createEncounter, up to the encounters insert
CreateEncounter ==
    /\ alert = "none"
    /\ IF ui.selectedPatientId = Null
       THEN UNCHANGED vars
       ELSE /\ Room(2) /\ CanWrite
            /\ tasks' = tasks \cup
                  {[ op |-> "createEncounter", pc |-> "insert",
                     patientId |-> ui.selectedPatientId,
                     row |-> [patient_id |-> ui.selectedPatientId] ]}
            /\ UNCHANGED <<db, ui, alert>>

\* createEncounter's insert settles: on error alert and return, else await
\* fetchEncounters(selectedPatientId)
CreateEncounterInsertSettle(t, ok) ==
    /\ alert = "none"
    /\ t \in tasks /\ t.op = "createEncounter" /\ t.pc = "insert"
    /\ IF ok
       THEN /\ db' = Inserted("encounters", [id |-> NextId("encounters")] @@ t.row)
            /\ tasks' = (tasks \ {t}) \cup
                  {[ op |-> "createEncounter", pc |-> "fetchEncounters",
                     patientId |-> t.patientId, id |-> NextId("encounters") ]}
            /\ UNCHANGED <<ui, alert>>
       ELSE /\ alert' = FailureAlert(t.op)
              /\ tasks' = tasks \ {t}
              /\ UNCHANGED <<db, ui>>

----------------------------------------------------------------------------
(* Notes, results, human DDX. *)

\* saveNote's payload
NoteRow(encounterId, note) == [encounter_id |-> encounterId, content |-> note.content]

\* a saveNote that inserts whether or not the edited note has an id
SaveNoteAlwaysInserting ==
    /\ alert = "none"
    /\ IF ui.selectedEncounterId = Null \/ ui.editingNote = NullRow
       THEN UNCHANGED vars
       ELSE /\ Room(1)
            /\ CanSubmit
            /\ tasks' = tasks \cup
                  {[ op |-> "saveNote", pc |-> "insert",
                     enc |-> ui.selectedEncounterId, table |-> "notes",
                     id |-> ui.editingNote.id,
                     row |-> NoteRow(ui.selectedEncounterId, ui.editingNote) ]}
            /\ UNCHANGED <<db, ui, alert>>

\* saveNote, up to the notes update (the edited note has an id) or insert
SaveNote ==
    /\ alert = "none"
    /\ IF ui.selectedEncounterId = Null \/ ui.editingNote = NullRow
       THEN UNCHANGED vars
       ELSE /\ Room(1)
            /\ CanSubmit
            /\ tasks' = tasks \cup
                  {[ op |-> "saveNote",
                     pc |-> IF ui.editingNote.id # Null THEN "update" ELSE "insert",
                     enc |-> ui.selectedEncounterId, table |-> "notes",
                     id |-> ui.editingNote.id,
                     row |-> NoteRow(ui.selectedEncounterId, ui.editingNote) ]}
            /\ UNCHANGED <<db, ui, alert>>

\* an update made by deleting the row and inserting the payload as a new one
UpdatedByReplacing(table, id, payload) ==
    [db EXCEPT ![table] =
        {r \in @ : r.id # id} \cup {[id |-> Cardinality(@) + 1] @@ payload}]

\* update(payload).eq('id', id): the columns of the payload are overwritten
Updated(table, id, payload) ==
    [db EXCEPT ![table] = {IF r.id = id THEN [id |-> id] @@ payload ELSE r : r \in @}]

\* saveNote's update settles, and an error also closes the editor
UpdateSettleClosing(t, ok) ==
    /\ alert = "none"
    /\ t \in tasks /\ t.op = "saveNote" /\ t.pc = "update"
    /\ IF ok
       THEN /\ db' = Updated("notes", t.id, t.row)
            /\ tasks' = (tasks \ {t}) \cup
                  {[ op |-> t.op, pc |-> "logEvent", enc |-> t.enc,
                     event |-> EventOf(t, t.id), rest |-> <<>> ]}
            /\ UNCHANGED <<ui, alert>>
       ELSE /\ alert' = FailureAlert(t.op)
            /\ tasks' = tasks \ {t}
            /\ ui' = [ui EXCEPT !.editingNote = NullRow]
            /\ UNCHANGED db

\* saveNote's update settles: on error alert and return, else log note_updated
UpdateSettle(t, ok) ==
    /\ alert = "none"
    /\ t \in tasks /\ t.op = "saveNote" /\ t.pc = "update"
    /\ IF ok
       THEN /\ db' = Updated("notes", t.id, t.row)
            /\ tasks' = (tasks \ {t}) \cup
                  {[ op |-> t.op, pc |-> "logEvent", enc |-> t.enc,
                     event |-> EventOf(t, t.id), rest |-> <<>> ]}
            /\ UNCHANGED <<ui, alert>>
       ELSE /\ alert' = FailureAlert(t.op)
              /\ tasks' = tasks \ {t}
              /\ UNCHANGED <<db, ui>>

\* the row addResult inserts
ResultRow(encounterId, name) == [encounter_id |-> encounterId, name |-> name]

\* addResult, up to the results insert
AddResult ==
    /\ alert = "none"
    /\ IF ui.selectedEncounterId = Null \/ Trim(ui.resultName) = <<>>
       THEN UNCHANGED vars
       ELSE /\ Room(1) /\ CanSubmit
            /\ tasks' = tasks \cup
                  {[ op |-> "addResult", pc |-> "insert", enc |-> ui.selectedEncounterId,
                     table |-> "results",
                     row |-> ResultRow(ui.selectedEncounterId, Trim(ui.resultName)) ]}
            /\ UNCHANGED <<db, ui, alert>>

\* addHumanDdx, up to the ddx_entries insert (probability and reason left empty)
AddHumanDdx ==
    /\ alert = "none"
    /\ IF ui.selectedEncounterId = Null \/ Trim(ui.ddxName) = <<>>
       THEN UNCHANGED vars
       ELSE /\ Room(1) /\ CanSubmit
            /\ tasks' = tasks \cup
                  {[ op |-> "addHumanDdx", pc |-> "insert", enc |-> ui.selectedEncounterId,
                     table |-> "ddx_entries",
                     row |-> DdxRow(ui.selectedEncounterId, "human", Trim(ui.ddxName),
                                    NullNum, NullStr) ]}
            /\ UNCHANGED <<db, ui, alert>>

----------------------------------------------------------------------------
(* The AI round trip. *)

\* a context read from the store instead of from state
ContextFromStore(u) ==
    [ encounter_id |-> u.selectedEncounterId,
      notes |-> {[content |-> n.content] : n \in RowsOf("notes", u.selectedEncounterId)},
      orders |-> {[code |-> o.code, name |-> o.name, status |-> o.status] :
                     o \in RowsOf("orders", u.selectedEncounterId)},
      results |-> {[name |-> r.name] : r \in RowsOf("results", u.selectedEncounterId)},
      ddx |-> {[source |-> d.source, name |-> d.name, prob |-> d.prob,
                reason |-> d.reason] : d \in RowsOf("ddx_entries", u.selectedEncounterId)} ]

\* runAi's context: the projection of the lists in state
Context(u) ==
    [ encounter_id |-> u.selectedEncounterId,
      notes |-> {[content |-> n.content] : n \in u.notes},
      orders |-> {[code |-> o.code, name |-> o.name, status |-> o.status] : o \in u.orders},
      results |-> {[name |-> r.name] : r \in u.results},
      ddx |-> {[source |-> d.source, name |-> d.name, prob |-> d.prob,
                reason |-> d.reason] : d \in u.ddx} ]

\* a runAi that does not look at isAiLoading
RunAiUnguarded ==
    /\ alert = "none"
    /\ IF ui.selectedEncounterId = Null
       THEN UNCHANGED vars
       ELSE /\ Room(1) /\ CanWrite
            /\ ui' = [ui EXCEPT !.isAiLoading = TRUE, !.selectedAiOrderSuggestionIds = {}]
            /\ tasks' = tasks \cup
                  {[ op |-> "runAi", pc |-> "invoke", enc |-> ui.selectedEncounterId,
                     context |-> Context(ui) ]}
            /\ UNCHANGED <<db, alert>>

\* runAi, up to the function call
RunAi ==
    /\ alert = "none"
    /\ IF ui.selectedEncounterId = Null \/ ui.isAiLoading
       THEN UNCHANGED vars
       ELSE /\ Room(1) /\ CanWrite
            /\ ui' = [ui EXCEPT !.isAiLoading = TRUE, !.selectedAiOrderSuggestionIds = {}]
            /\ tasks' = tasks \cup
                  {[ op |-> "runAi", pc |-> "invoke", enc |-> ui.selectedEncounterId,
                     context |-> Context(ui) ]}
            /\ UNCHANGED <<db, alert>>

\* the ai_runs row without the context
AiRunRowNoPrompt(t, result) ==
    [ encounter_id |-> t.enc, provider |-> "gemini", model |-> "gemini-2.0-flash",
      status |-> "completed", prompt |-> NullRow, response |-> result ]

\* the ai_runs row runAi inserts
AiRunRow(t, result) ==
    [ encounter_id |-> t.enc, provider |-> "gemini", model |-> "gemini-2.0-flash",
      status |-> "completed", prompt |-> t.context, response |-> result ]

\* the function call settles, and a failure also empties the displayed lists
RunAiInvokeSettleClearing(t, failure, result) ==
    /\ alert = "none"
    /\ t \in tasks /\ t.op = "runAi" /\ t.pc = "invoke"
    /\ IF failure \in {"error", "throw"}
       THEN /\ alert' = IF failure = "error" THEN "AI function failed"
                                             ELSE "AI connection failed"
            /\ Render(Finished(t, [ui EXCEPT !.notes = {}, !.orders = {},
                                             !.results = {}, !.ddx = {}]),
                      tasks \ {t})
            /\ UNCHANGED db
       ELSE /\ tasks' = (tasks \ {t}) \cup
                    {[ op |-> "runAi", pc |-> "insertRun", enc |-> t.enc,
                       result |-> result, row |-> AiRunRow(t, result) ]}
              /\ UNCHANGED <<db, ui, alert>>

\* the function call settles, and a failure is recorded as a failed run
RunAiInvokeSettleRecording(t, failure, result) ==
    /\ alert = "none"
    /\ t \in tasks /\ t.op = "runAi" /\ t.pc = "invoke"
    /\ IF failure \in {"error", "throw"}
       THEN /\ alert' = IF failure = "error" THEN "AI function failed"
                                             ELSE "AI connection failed"
            /\ Render(Finished(t, ui), tasks \ {t})
            /\ db' = Inserted("ai_runs", [id |-> NextId("ai_runs")]
                                          @@ [AiRunRow(t, result) EXCEPT !.status = "failed"])
       ELSE /\ tasks' = (tasks \ {t}) \cup
                    {[ op |-> "runAi", pc |-> "insertRun", enc |-> t.enc,
                       result |-> result, row |-> AiRunRow(t, result) ]}
              /\ UNCHANGED <<db, ui, alert>>

\* the function call settles with an error, a throw or data
\* (outcome is "error", "throw", or one of AiResults)
RunAiInvokeSettle(t, failure, result) ==
    /\ alert = "none"
    /\ t \in tasks /\ t.op = "runAi" /\ t.pc = "invoke"
    /\ IF failure = "error"
       THEN /\ alert' = "AI function failed"
            /\ Render(Finished(t, ui), tasks \ {t})
            /\ UNCHANGED db
       ELSE IF failure = "throw"
       THEN /\ alert' = "AI connection failed"
            /\ Render(Finished(t, ui), tasks \ {t})
            /\ UNCHANGED db
       ELSE /\ tasks' = (tasks \ {t}) \cup
                    {[ op |-> "runAi", pc |-> "insertRun", enc |-> t.enc,
                       result |-> result, row |-> AiRunRow(t, result) ]}
              /\ UNCHANGED <<db, ui, alert>>

\* the ai_runs insert settles (response is a NOT NULL column: a null result
\* is refused by the store): on error alert and return, else log ai_run_completed
RunAiInsertRunSettle(t, ok) ==
    /\ alert = "none"
    /\ t \in tasks /\ t.op = "runAi" /\ t.pc = "insertRun"
    /\ ok => t.result.kind # "null"
    /\ IF ok
       THEN /\ db' = Inserted("ai_runs", [id |-> NextId("ai_runs")] @@ t.row)
            /\ tasks' = (tasks \ {t}) \cup
                  {[ op |-> "runAi", pc |-> "logEvent", enc |-> t.enc,
                     result |-> t.result, aiRunId |-> NextId("ai_runs"),
                     event |-> EventRow(t.enc, "ai", "ai_run_completed", "ai_runs",
                                        NextId("ai_runs")) ]}
            /\ UNCHANGED <<ui, alert>>
       ELSE /\ alert' = "insert ai_runs failed"
              /\ Render(Finished(t, ui), tasks \ {t})
              /\ UNCHANGED db

\* insert(rows): the rows get consecutive ids in their order
InsertedAll(table, rows) ==
    [db EXCEPT ![table] =
        @ \cup {[id |-> Cardinality(@) + i] @@ rows[i] : i \in 1..Len(rows)}]

\* runAi's logEvent settles; then the rows are built, which throws on a
\* diagnoses that is not an array (caught: alert, return), and the
\* ai_suggestions insert is awaited
RunAiLogEventSettle(t, ok) ==
    /\ alert = "none"
    /\ t \in tasks /\ t.op = "runAi" /\ t.pc = "logEvent"
    /\ db' = IF ok
             THEN Inserted("patient_events", [id |-> NextId("patient_events")] @@ t.event)
             ELSE db
    /\ IF t.result.kind = "malformed"
       THEN /\ alert' = "AI connection failed"
            /\ Render(Finished(t, ui), tasks \ {t})
       ELSE /\ tasks' = (tasks \ {t}) \cup
                    {[ op |-> "runAi", pc |-> "insertSuggestions", enc |-> t.enc,
                       result |-> t.result, aiRunId |-> t.aiRunId,
                       rows |-> DiagRows(t) \o OrderRows(t) ]}
              /\ UNCHANGED <<ui, alert>>

\* the ai_suggestions insert settles, and runAi goes on without looking at
\* its error
RunAiInsertSuggestionsSettleNoReturn(t, ok) ==
    /\ alert = "none"
    /\ t \in tasks /\ t.op = "runAi" /\ t.pc = "insertSuggestions"
    /\ db' = IF ok THEN InsertedAll("ai_suggestions", t.rows) ELSE db
    /\ tasks' = (tasks \ {t}) \cup
          {[ op |-> "runAi", pc |-> "insertDdx", enc |-> t.enc,
             aiRunId |-> t.aiRunId, rows |-> DdxRows(t) ]}
    /\ UNCHANGED <<ui, alert>>

\* the ai_suggestions insert settles: on error alert and return, else await
\* the ddx_entries insert
RunAiInsertSuggestionsSettle(t, ok) ==
    /\ alert = "none"
    /\ t \in tasks /\ t.op = "runAi" /\ t.pc = "insertSuggestions"
    /\ IF ok
       THEN /\ db' = InsertedAll("ai_suggestions", t.rows)
            /\ tasks' = (tasks \ {t}) \cup
                  {[ op |-> "runAi", pc |-> "insertDdx", enc |-> t.enc,
                     aiRunId |-> t.aiRunId, rows |-> DdxRows(t) ]}
            /\ UNCHANGED <<ui, alert>>
       ELSE /\ alert' = "insert ai_suggestions failed"
              /\ Render(Finished(t, ui), tasks \ {t})
              /\ UNCHANGED db

\* the ddx_entries insert settles, and its error ends runAi with an alert
RunAiInsertDdxSettleStrict(t, ok) ==
    /\ alert = "none"
    /\ t \in tasks /\ t.op = "runAi" /\ t.pc = "insertDdx"
    /\ IF ok
       THEN /\ db' = InsertedAll("ddx_entries", t.rows)
            /\ Render([ui EXCEPT !.isBusy = TRUE],
                      (tasks \ {t}) \cup
                      {[op |-> "runAi", pc |-> "fetchEncounterData", enc |-> t.enc]})
            /\ UNCHANGED alert
       ELSE /\ alert' = "insert ddx_entries failed"
            /\ Render(Finished(t, ui), tasks \ {t})
            /\ UNCHANGED db

\* the ddx_entries insert settles: an error is only logged; then the reload
RunAiInsertDdxSettle(t, ok) ==
    /\ alert = "none"
    /\ t \in tasks /\ t.op = "runAi" /\ t.pc = "insertDdx"
    /\ db' = IF ok THEN InsertedAll("ddx_entries", t.rows) ELSE db
    /\ Render([ui EXCEPT !.isBusy = TRUE],
              (tasks \ {t}) \cup
              {[op |-> "runAi", pc |-> "fetchEncounterData", enc |-> t.enc]})
    /\ UNCHANGED alert

----------------------------------------------------------------------------
(* Applying AI order suggestions. *)

\* picks that take every displayed order suggestion, ticked or not
PicksAllOrders(u) == {s \in u.aiSuggestions : s.suggestion_type = "order"}

\* applyAiOrders: picks, in the order of aiSuggestions (created_at ascending)
Picks(u) ==
    {s \in u.aiSuggestions :
        s.suggestion_type = "order" /\ s.id \in u.selectedAiOrderSuggestionIds}

RECURSIVE SortedById(_)
SortedById(S) ==
    IF S = {} THEN <<>>
    ELSE LET m == CHOOSE x \in S : \A y \in S : x.id <= y.id
         IN  <<m>> \o SortedById(S \ {m})

\* applyAiOrders: the orders row made of a picked suggestion, whose data
\* payload names the run and the suggestion
AppliedOrderRow(encounterId, p) ==
    [ encounter_id |-> encounterId, code |-> p.code, name |-> p.name, status |-> "sent",
      from_ai_run_id |-> p.ai_run_id, suggestion_id |-> p.id ]

\* applyAiOrders without its guard on the picks
ApplyAiOrdersUnguarded ==
    /\ alert = "none"
    /\ IF ui.selectedEncounterId = Null
       THEN UNCHANGED vars
       ELSE /\ Room(1) /\ CanWrite
            /\ tasks' = tasks \cup
                  {[ op |-> "applyAiOrders", pc |-> "insert", enc |-> ui.selectedEncounterId,
                     rows |-> [ i \in 1..Cardinality(Picks(ui)) |->
                                  AppliedOrderRow(ui.selectedEncounterId,
                                                  SortedById(Picks(ui))[i]) ] ]}
            /\ UNCHANGED <<db, ui, alert>>

\* applyAiOrders, up to the orders insert
ApplyAiOrders ==
    /\ alert = "none"
    /\ IF ui.selectedEncounterId = Null \/ Picks(ui) = {}
       THEN UNCHANGED vars
       ELSE /\ Room(1) /\ CanWrite
            /\ tasks' = tasks \cup
                  {[ op |-> "applyAiOrders", pc |-> "insert", enc |-> ui.selectedEncounterId,
                     rows |-> [ i \in 1..Cardinality(Picks(ui)) |->
                                  AppliedOrderRow(ui.selectedEncounterId,
                                                  SortedById(Picks(ui))[i]) ] ]}
            /\ UNCHANGED <<db, ui, alert>>

\* after the last logEvent of applyAiOrders: clear the selection and reload
ApplyAiOrdersTail(t) ==
    Render(AfterLogEvent(t, ui),
           (tasks \ {t}) \cup
           {[op |-> t.op, pc |-> "fetchEncounterData", enc |-> t.enc]})

\* applyAiOrders's insert settles: on error alert and return, else log one
\* event per returned id, one after another
ApplyAiOrdersInsertSettle(t, ok) ==
    /\ alert = "none"
    /\ t \in tasks /\ t.op = "applyAiOrders" /\ t.pc = "insert"
    /\ IF ok
       THEN /\ db' = InsertedAll("orders", t.rows)
            /\ tasks' = (tasks \ {t}) \cup
                  {[ op |-> t.op, pc |-> "logEvent", enc |-> t.enc,
                     event |-> EventRow(t.enc, "ai", "order_created_from_ai", "orders",
                                        Cardinality(db.orders) + 1),
                     rest |-> [i \in 1..(Len(t.rows) - 1) |->
                                 Cardinality(db.orders) + 1 + i] ]}
            /\ UNCHANGED <<ui, alert>>
       ELSE /\ alert' = FailureAlert(t.op)
              /\ tasks' = tasks \ {t}
              /\ UNCHANGED <<db, ui>>

\* applyAiOrders logging the first inserted order only before its tail
ApplyAiOrdersLogEventSettleFirstOnly(t, ok) ==
    /\ alert = "none"
    /\ t \in tasks /\ t.op = "applyAiOrders" /\ t.pc = "logEvent"
    /\ db' = IF ok
             THEN Inserted("patient_events", [id |-> NextId("patient_events")] @@ t.event)
             ELSE db
    /\ ApplyAiOrdersTail(t)
    /\ UNCHANGED alert

\* one logEvent of applyAiOrders's loop settles
ApplyAiOrdersLogEventSettle(t, ok) ==
    /\ alert = "none"
    /\ t \in tasks /\ t.op = "applyAiOrders" /\ t.pc = "logEvent"
    /\ db' = IF ok
             THEN Inserted("patient_events", [id |-> NextId("patient_events")] @@ t.event)
             ELSE db
    /\ IF t.rest # <<>>
       THEN /\ tasks' = (tasks \ {t}) \cup
                  {[ t EXCEPT !.event = EventRow(t.enc, "ai", "order_created_from_ai",
                                                 "orders", Head(t.rest)),
                              !.rest = Tail(t.rest) ]}
            /\ UNCHANGED ui
       ELSE ApplyAiOrdersTail(t)
    /\ UNCHANGED alert

\* an AI order suggestion's checkbox
ToggleAiOrder(id) ==
    /\ alert = "none"
    /\ ui.selectedEncounterId # Null
    /\ \E s \in ui.aiSuggestions : s.suggestion_type = "order" /\ s.id = id
    /\ ui' = [ui EXCEPT !.selectedAiOrderSuggestionIds =
                 IF id \in @ THEN @ \ {id} ELSE @ \cup {id}]
    /\ UNCHANGED <<db, tasks, alert>>

----------------------------------------------------------------------------
(* Form inputs. *)

\* the user dismisses the alert() dialog
DismissAlert ==
    /\ alert # "none"
    /\ alert' = "none"
    /\ UNCHANGED <<db, ui, tasks>>

\* what the user types into the order input in the main specification
OrderInputs == {<<" ">>, <<"a", " ", "B">>, <<"a", "\t", "B">>}

\* the order input's onChange; the input is rendered when an encounter is selected
TypeOrder(s) ==
    /\ alert = "none"
    /\ ui.selectedEncounterId # Null
    /\ Typed([ui EXCEPT !.orderInput = s])
    /\ UNCHANGED <<db, tasks, alert>>

\* what the user types into the other text inputs
TextInputs == {<<"a">>}

\* "+ Patient", the modal's close buttons and its name input
OpenPatientModal ==
    /\ alert = "none"
    /\ Typed([ui EXCEPT !.isPatientModalOpen = TRUE])
    /\ UNCHANGED <<db, tasks, alert>>

ClosePatientModal ==
    /\ alert = "none"
    /\ ui.isPatientModalOpen
    /\ ui' = [ui EXCEPT !.isPatientModalOpen = FALSE]
    /\ UNCHANGED <<db, tasks, alert>>

TypePatientName(s) ==
    /\ alert = "none"
    /\ ui.isPatientModalOpen
    /\ Typed([ui EXCEPT !.newPatientName = s])
    /\ UNCHANGED <<db, tasks, alert>>

\* the result and DDX name inputs, rendered when an encounter is selected
TypeResultName(s) ==
    /\ alert = "none"
    /\ ui.selectedEncounterId # Null
    /\ Typed([ui EXCEPT !.resultName = s])
    /\ UNCHANGED <<db, tasks, alert>>

TypeDdxName(s) ==
    /\ alert = "none"
    /\ ui.selectedEncounterId # Null
    /\ Typed([ui EXCEPT !.ddxName = s])
    /\ UNCHANGED <<db, tasks, alert>>

\* "+ Add": a new note, without id
NewNote ==
    /\ alert = "none"
    /\ ui.selectedEncounterId # Null
    /\ Typed([ui EXCEPT !.editingNote = [id |-> Null, content |-> <<>>]])
    /\ UNCHANGED <<db, tasks, alert>>

\* a click on a listed note opens it in the editor
OpenNote(n) ==
    /\ alert = "none"
    /\ ui.selectedEncounterId # Null
    /\ n \in ui.notes
    /\ Typed([ui EXCEPT !.editingNote = [id |-> n.id, content |-> n.content]])
    /\ UNCHANGED <<db, tasks, alert>>

\* what the user types into the note editor
NoteInputs == {<<"b">>}

\* the editor's content textarea
EditNote(s) ==
    /\ alert = "none"
    /\ ui.editingNote # NullRow
    /\ Typed([ui EXCEPT !.editingNote = [@ EXCEPT !.content = s]])
    /\ UNCHANGED <<db, tasks, alert>>

\* the editor's Cancel and close buttons
CancelNote ==
    /\ alert = "none"
    /\ ui.editingNote # NullRow
    /\ ui' = [ui EXCEPT !.editingNote = NullRow]
    /\ UNCHANGED <<db, tasks, alert>>

----------------------------------------------------------------------------
ReadTables == {"notes", "orders", "results", "ddx_entries"}

AiFailures == {"error", "throw"}

Next ==
    \/ DismissAlert
    \/ \E p \in ui.patients : SelectPatient(p)
    \/ \E e \in {x.id : x \in ui.encounters} : SelectEncounter(e)
    \/ OpenPatientModal
    \/ ClosePatientModal
    \/ \E s \in TextInputs : TypePatientName(s)
    \/ CreatePatient
    \/ CreateEncounter
    \/ NewNote
    \/ \E n \in ui.notes : OpenNote(n)
    \/ \E s \in NoteInputs : EditNote(s)
    \/ CancelNote
    \/ SaveNote
    \/ \E s \in OrderInputs : TypeOrder(s)
    \/ AddOrder(ui.orderInput)
    \/ \E s \in TextInputs : TypeResultName(s)
    \/ AddResult
    \/ \E s \in TextInputs : TypeDdxName(s)
    \/ AddHumanDdx
    \/ RunAi
    \/ \E id \in {s.id : s \in ui.aiSuggestions} : ToggleAiOrder(id)
    \/ ApplyAiOrders
    \/ \E t \in tasks, ok \in BOOLEAN : FetchPatientsSettle(t, ok)
    \/ \E t \in tasks, ok \in BOOLEAN : FetchEncountersSettle(t, ok)
    \/ \E t \in tasks, failed \in SUBSET ReadTables : FetchEncounterDataSettle(t, failed)
    \/ \E t \in tasks, ok \in BOOLEAN : FetchLatestAiRunSettle(t, ok)
    \/ \E t \in tasks, ok \in BOOLEAN : FetchLatestAiSuggestionsSettle(t, ok)
    \/ \E t \in tasks, ok \in BOOLEAN : CreatePatientInsertSettle(t, ok)
    \/ \E t \in tasks, ok \in BOOLEAN : CreateEncounterInsertSettle(t, ok)
    \/ \E t \in tasks, ok \in BOOLEAN : InsertSettle(t, ok)
    \/ \E t \in tasks, ok \in BOOLEAN : UpdateSettle(t, ok)
    \/ \E t \in tasks, ok \in BOOLEAN : LogEventSettle(t, ok)
    \/ \E t \in tasks, f \in AiFailures : RunAiInvokeSettle(t, f, [kind |-> "null"])
    \/ \E t \in tasks, r \in AiResults : RunAiInvokeSettle(t, "none", r)
    \/ \E t \in tasks, ok \in BOOLEAN : RunAiInsertRunSettle(t, ok)
    \/ \E t \in tasks, ok \in BOOLEAN : RunAiLogEventSettle(t, ok)
    \/ \E t \in tasks, ok \in BOOLEAN : RunAiInsertSuggestionsSettle(t, ok)
    \/ \E t \in tasks, ok \in BOOLEAN : RunAiInsertDdxSettle(t, ok)
    \/ \E t \in tasks, ok \in BOOLEAN : ApplyAiOrdersInsertSettle(t, ok)
    \/ \E t \in tasks, ok \in BOOLEAN : ApplyAiOrdersLogEventSettle(t, ok)

Spec == Init /\ [][Next]_vars

----------------------------------------------------------------------------
(* One AI round trip on an open encounter, with nothing else going on: the
   user only ticks suggestions and dismisses alerts, and every read of the
   reload succeeds. *)

\* what the latest-AI effect left in state: nothing (the ai_runs select
\* failed), the run alone (the ai_suggestions select failed), or both
AiLoads == {"none", "run", "all"}

\* the component with encounter 1 of patient 1 open and its loads settled
OpenUi(failed, ai) ==
    [EmptyUi EXCEPT
        !.patients = {p.id : p \in db.patients},
        !.selectedPatientId = 1,
        !.encounters = {e \in db.encounters : e.patient_id = 1},
        !.selectedEncounterId = 1,
        !.notes = Fetched("notes", 1, failed),
        !.orders = Fetched("orders", 1, failed),
        !.results = Fetched("results", 1, failed),
        !.ddx = Fetched("ddx_entries", 1, failed),
        !.latestAiRun = IF ai = "none" THEN NullRow ELSE LatestRun(1),
        !.aiSuggestions = IF ai = "all"
                          THEN {s \in db.ai_suggestions : s.ai_run_id = LatestRun(1).id}
                          ELSE {}]

InitAiAlone ==
    /\ db = InitDb
    /\ ui \in {OpenUi(failed, ai) : failed \in SUBSET ReadTables, ai \in AiLoads}
    /\ tasks = {}
    /\ alert = "none"

NextAiAlone ==
    \/ DismissAlert
    \/ RunAi
    \/ \E id \in {s.id : s \in ui.aiSuggestions} : ToggleAiOrder(id)
    \/ \E t \in tasks, f \in AiFailures : RunAiInvokeSettle(t, f, [kind |-> "null"])
    \/ \E t \in tasks, r \in AiResults : RunAiInvokeSettle(t, "none", r)
    \/ \E t \in tasks, ok \in BOOLEAN : RunAiInsertRunSettle(t, ok)
    \/ \E t \in tasks, ok \in BOOLEAN : RunAiLogEventSettle(t, ok)
    \/ \E t \in tasks, ok \in BOOLEAN : RunAiInsertSuggestionsSettle(t, ok)
    \/ \E t \in tasks, ok \in BOOLEAN : RunAiInsertDdxSettle(t, ok)
    \/ \E t \in tasks : FetchEncounterDataSettle(t, {})
    \/ \E t \in tasks : FetchLatestAiRunSettle(t, TRUE)
    \/ \E t \in tasks : FetchLatestAiSuggestionsSettle(t, TRUE)

SpecAiAlone == InitAiAlone /\ [][NextAiAlone]_vars

\* the request a round trip awaits settles, one way or another
RoundTripStep ==
    \E t \in {x \in tasks : x.op = "runAi"} :
        \/ \E f \in AiFailures : RunAiInvokeSettle(t, f, [kind |-> "null"])
        \/ \E r \in AiResults : RunAiInvokeSettle(t, "none", r)
        \/ \E ok \in BOOLEAN : RunAiInsertRunSettle(t, ok)
        \/ \E ok \in BOOLEAN : RunAiLogEventSettle(t, ok)
        \/ \E ok \in BOOLEAN : RunAiInsertSuggestionsSettle(t, ok)
        \/ \E ok \in BOOLEAN : RunAiInsertDdxSettle(t, ok)
        \/ FetchEncounterDataSettle(t, {})
        \/ FetchLatestAiRunSettle(t, TRUE)
        \/ FetchLatestAiSuggestionsSettle(t, TRUE)

\* every request a round trip awaits eventually settles
SpecAiFair == SpecAiAlone /\ WF_vars(RoundTripStep)

----------------------------------------------------------------------------
(* fetchEncounterData seen one response at a time: the four selects of its
   Promise.all are answered in any order, each reading the store when it is
   answered. *)

\* a select of the Promise.all that is not answered yet
Unanswered == [state |-> "pending", data |-> {}]

\* the answer to the select of a table: { data, error }
Response(table, encounterId, ok) ==
    IF ok THEN [state |-> "ok", data |-> RowsOf(table, encounterId)]
    ELSE [state |-> "error", data |-> {}]

\* fetchEncounterData(selectedEncounterId) is called: setIsBusy(true) and the
\* four selects go out
FetchEncounterDataCall ==
    /\ alert = "none"
    /\ ui.selectedEncounterId # Null
    /\ tasks = {}
    /\ ui' = [ui EXCEPT !.isBusy = TRUE]
    /\ tasks' = {[ op |-> "load", pc |-> "Promise.all", enc |-> ui.selectedEncounterId,
                   got |-> [x \in ReadTables |-> Unanswered] ]}
    /\ UNCHANGED <<db, alert>>

\* a fetchEncounterData that sets each list as soon as its select is answered
ResponseArrivesApplying(t, table, ok) ==
    /\ alert = "none"
    /\ t \in tasks /\ t.pc = "Promise.all" /\ t.got[table] = Unanswered
    /\ LET got == [t.got EXCEPT ![table] = Response(table, t.enc, ok)]
           u1 == [ui EXCEPT !.notes = IF table = "notes" THEN got[table].data ELSE @,
                            !.orders = IF table = "orders" THEN got[table].data ELSE @,
                            !.results = IF table = "results" THEN got[table].data ELSE @,
                            !.ddx = IF table = "ddx_entries" THEN got[table].data ELSE @]
       IN  IF \E x \in ReadTables : got[x] = Unanswered
           THEN /\ tasks' = (tasks \ {t}) \cup {[t EXCEPT !.got = got]}
                /\ ui' = u1
           ELSE Render([u1 EXCEPT !.isBusy = FALSE], tasks \ {t})
    /\ UNCHANGED <<db, alert>>

\* one select is answered; Promise.all resolves with the last of the four,
\* and only then the four lists are set (data ?? []) and isBusy is cleared
ResponseArrives(t, table, ok) ==
    /\ alert = "none"
    /\ t \in tasks /\ t.pc = "Promise.all" /\ t.got[table] = Unanswered
    /\ LET got == [t.got EXCEPT ![table] = Response(table, t.enc, ok)]
       IN  IF \E x \in ReadTables : got[x] = Unanswered
           THEN /\ tasks' = (tasks \ {t}) \cup {[t EXCEPT !.got = got]}
                /\ UNCHANGED ui
           ELSE Render([ui EXCEPT !.notes = got["notes"].data,
                                  !.orders = got["orders"].data,
                                  !.results = got["results"].data,
                                  !.ddx = got["ddx_entries"].data,
                                  !.isBusy = FALSE],
                       tasks \ {t})
    /\ UNCHANGED <<db, alert>>

NextLoad ==
    \/ FetchEncounterDataCall
    \/ \E t \in tasks, table \in ReadTables, ok \in BOOLEAN : ResponseArrives(t, table, ok)

SpecLoad == InitAiAlone /\ [][NextLoad]_vars

----------------------------------------------------------------------------
(* AI round trips one after another on an open encounter: the store is the
   one before the earlier session's note was written, which leaves room for
   a second round trip, and the user may also click the patient. *)

InitAiAgain ==
    /\ db = [InitDb EXCEPT !.notes = {},
                           !.patient_events = {e \in @ : e.entity_table # "notes"}]
    /\ ui \in {OpenUi(failed, ai) : failed \in SUBSET ReadTables, ai \in AiLoads}
    /\ tasks = {}
    /\ alert = "none"

NextAiAgain ==
    \/ NextAiAlone
    \/ \E p \in ui.patients : SelectPatient(p)
    \/ \E e \in {x.id : x \in ui.encounters} : SelectEncounter(e)

SpecAiAgain == InitAiAgain /\ [][NextAiAgain]_vars

----------------------------------------------------------------------------
(* The notes of a patient with two encounters. *)

\* a store left by an earlier session of as many rows as InitDb: the patient
\* has two encounters, the first with a note, and no AI run was made
InitDbTwoEncounters ==
    [ InitDb EXCEPT
        !.encounters = @ \cup {[id |-> 2, patient_id |-> 1]},
        !.ddx_entries = {},
        !.ai_runs = {},
        !.ai_suggestions = {},
        !.patient_events = {e \in @ : e.entity_table = "notes"} ]

InitTwoEncounters ==
    /\ db = InitDbTwoEncounters
    /\ ui = EmptyUi
    /\ tasks = {[op |-> "fetchPatients", pc |-> "fetchPatients"]}
    /\ alert = "none"

NextTwoEncounters ==
    \/ DismissAlert
    \/ \E p \in ui.patients : SelectPatient(p)
    \/ \E e \in {x.id : x \in ui.encounters} : SelectEncounter(e)
    \/ NewNote
    \/ \E n \in ui.notes : OpenNote(n)
    \/ \E s \in NoteInputs : EditNote(s)
    \/ CancelNote
    \/ SaveNote
    \/ \E t \in tasks, ok \in BOOLEAN : FetchPatientsSettle(t, ok)
    \/ \E t \in tasks, ok \in BOOLEAN : FetchEncountersSettle(t, ok)
    \/ \E t \in tasks, failed \in SUBSET ReadTables : FetchEncounterDataSettle(t, failed)
    \/ \E t \in tasks, ok \in BOOLEAN : FetchLatestAiRunSettle(t, ok)
    \/ \E t \in tasks, ok \in BOOLEAN : InsertSettle(t, ok)
    \/ \E t \in tasks, ok \in BOOLEAN : UpdateSettle(t, ok)
    \/ \E t \in tasks, ok \in BOOLEAN : LogEventSettle(t, ok)

SpecTwoEncounters == InitTwoEncounters /\ [][NextTwoEncounters]_vars

----------------------------------------------------------------------------
(* Order entry. *)

\* the first whitespace-delimited token of s, and what follows it
RECURSIVE FirstToken(_)
FirstToken(s) ==
    IF s = <<>> \/ IsWhitespace(Head(s)) THEN <<>>
    ELSE <<Head(s)>> \o FirstToken(Tail(s))

Remainder(s) == TrimStart(SubSeq(s, Len(FirstToken(s)) + 1, Len(s)))

TokenCode(input) ==
    IF FirstToken(Trim(input)) = <<>> THEN NullStr
    ELSE ToUpperCase(FirstToken(Trim(input)))

TokenName(input) ==
    IF Remainder(Trim(input)) = <<>> THEN GeneralOrder ELSE Remainder(Trim(input))

\* an input that contains a non-whitespace character
HasText(input) == \E i \in 1..Len(input) : ~IsWhitespace(input[i])

\* C1: with an encounter selected, addOrder on an input that contains a
\* non-whitespace character issues the insert of one order whose code is the
\* input's first whitespace-delimited token, uppercased (null if empty), and
\* whose name is the remainder after that token, or "General Order"; and when
\* the insert succeeds exactly that one row is added to orders.
OrderIsFirstTokenAndRemainder ==
    [][ /\ (AddOrder(ui.orderInput) /\ ui.selectedEncounterId # Null
                                    /\ HasText(ui.orderInput))
           => \E t \in tasks' \ tasks :
                 /\ t.op = "addOrder" /\ t.pc = "insert"
                 /\ t.row.code = TokenCode(ui.orderInput)
                 /\ t.row.name = TokenName(ui.orderInput)
        /\ \A t \in tasks :
              (t.op = "addOrder" /\ InsertSettle(t, TRUE))
              => db'.orders = db.orders \cup {[id |-> Cardinality(db.orders) + 1] @@ t.row}
      ]_vars

\* C2: addOrder on an empty or whitespace-only input changes nothing: no
\* orders row, no patient_events row, no request issued, and the order input
\* and the displayed lists as they were.
BlankOrderIsNoOp ==
    [][ (AddOrder(ui.orderInput) /\ ~HasText(ui.orderInput)) => UNCHANGED vars ]_vars

\* a whitespace-only order input is in the field of an open encounter, no
\* request is in flight, and nothing was written
BlankOrderTyped ==
    /\ alert = "none"
    /\ ui.selectedEncounterId # Null
    /\ ui.orderInput # <<>> /\ ~HasText(ui.orderInput)
    /\ tasks = {}
    /\ db = InitDb

----------------------------------------------------------------------------
(* Selection and the dependent views. *)

\* the views that depend on the selected encounter are empty
ViewsEmpty ==
    /\ ui.notes = {} /\ ui.orders = {} /\ ui.results = {} /\ ui.ddx = {}
    /\ ui.latestAiRun = NullRow /\ ui.aiSuggestions = {}
    /\ ui.selectedAiOrderSuggestionIds = {}

\* C3: once a patient is selected, and as long as no encounter is selected
\* again, the notes, orders, results, DDX, latest AI run, AI suggestions and
\* selected suggestions are empty.
PatientSelectionClearsViews ==
    (ui.selectedPatientId # Null /\ ui.selectedEncounterId = Null) => ViewsEmpty

----------------------------------------------------------------------------
(* Applying AI orders. *)

\* C4: applyAiOrders, when no displayed suggestion of type order has its id
\* in the selected set, changes nothing: no orders row, no patient_events row,
\* no request issued, and the cells (the selected set among them) as they were.
ApplyWithoutPicksIsNoOp ==
    [][ (ApplyAiOrders /\ Picks(ui) = {}) => UNCHANGED vars ]_vars

\* an encounter is open whose selected set names a suggestion that is not
\* displayed, so that applyAiOrders finds no pick; nothing is in flight
SelectedButNotDisplayed ==
    /\ alert = "none"
    /\ ui.selectedEncounterId # Null
    /\ ui.selectedAiOrderSuggestionIds # {}
    /\ Picks(ui) = {}
    /\ tasks = {}
    /\ db.orders = {}

----------------------------------------------------------------------------
(* A failed AI function call. *)

\* the notes, orders, results and ddx lists on screen
Lists(u) == <<u.notes, u.orders, u.results, u.ddx>>

\* C5: runAi whose AI function call fails (an error result or a throw)
\* leaves the notes, orders, results and ddx lists as they are: neither its
\* start nor the failing call changes them, and it ends at the failing call.
AiFailureKeepsLists ==
    [][ /\ RunAi => Lists(ui') = Lists(ui)
        /\ \A t \in tasks, f \in AiFailures :
              RunAiInvokeSettle(t, f, [kind |-> "null"])
              => Lists(ui') = Lists(ui) /\ tasks' = tasks \ {t}
      ]_vars

\* the AI call failed with an error while notes and DDX entries are shown
AiErrorWithListsShown ==
    /\ alert = "AI function failed"
    /\ ui.notes # {} /\ ui.ddx # {}
    /\ ~ui.isAiLoading

\* C6: when the AI function call fails, runAi raises an alert and persists
\* nothing: the failing call leaves every table as it is and this runAi
\* issues no further request.
AiFailureAlertsAndPersistsNothing ==
    [][ \A t \in tasks, f \in AiFailures :
          RunAiInvokeSettle(t, f, [kind |-> "null"])
          => /\ alert' # "none"
             /\ db' = db
             /\ \A t2 \in tasks' : t2.op # "runAi"
      ]_vars

\* the AI call threw: the alert is up, no runAi is left and the store is as
\* it was at the start
AiThrowNothingStored ==
    /\ alert = "AI connection failed"
    /\ db = InitDb
    /\ \A t \in tasks : t.op # "runAi"

----------------------------------------------------------------------------
(* The audit log. *)

\* the step in which the logEvent awaited by invocation t fails
AuditFails(t) ==
    \/ LogEventSettle(t, FALSE)
    \/ RunAiLogEventSettle(t, FALSE)
    \/ ApplyAiOrdersLogEventSettle(t, FALSE)

\* the reload a handler awaits at its end is in flight
Reloading(ts, t) ==
    [op |-> t.op, pc |-> "fetchEncounterData", enc |-> t.enc] \in ts

\* C7: when the patient_events insert of saveNote, addOrder, addResult,
\* addHumanDdx, runAi or applyAiOrders fails after the primary write, the
\* store keeps every row (the primary row among them), no alert is raised for
\* it, and the handler goes on to its remaining steps: the form reset and the
\* reload, the next audit insert of applyAiOrders, the ai_suggestions insert
\* of runAi.
AuditFailureNeverBlocks ==
    [][ \A t \in tasks :
          AuditFails(t)
          => /\ db' = db
             /\ \E r \in db'[t.event.entity_table] : r.id = t.event.entity_id
             /\ CASE t.op = "saveNote" ->
                        alert' = "none" /\ ui'.editingNote = NullRow /\ Reloading(tasks', t)
                  [] t.op = "addOrder" ->
                        alert' = "none" /\ ui'.orderInput = <<>> /\ Reloading(tasks', t)
                  [] t.op = "addResult" ->
                        alert' = "none" /\ ui'.resultName = <<>> /\ Reloading(tasks', t)
                  [] t.op = "addHumanDdx" ->
                        alert' = "none" /\ ui'.ddxName = <<>> /\ Reloading(tasks', t)
                  [] t.op = "applyAiOrders" ->
                        /\ alert' = "none"
                        /\ IF t.rest # <<>>
                           THEN \E t2 \in tasks' :
                                   /\ t2.op = t.op /\ t2.pc = "logEvent"
                                   /\ t2.event.entity_id = Head(t.rest)
                           ELSE /\ ui'.selectedAiOrderSuggestionIds = {}
                                /\ Reloading(tasks', t)
                  [] t.op = "runAi" ->
                        \* a result whose rows cannot be built ends runAi
                        \* whatever the audit insert did
                        t.result.kind # "malformed"
                        => /\ alert' = "none"
                           /\ \E t2 \in tasks' :
                                 /\ t2.op = t.op /\ t2.pc = "insertSuggestions"
                                 /\ t2.aiRunId = t.aiRunId
      ]_vars

\* an order is stored and shown, its form is reset, nothing is in flight,
\* and no event names it
OrderWithoutEvent ==
    /\ alert = "none" /\ tasks = {}
    /\ ui.orderInput = <<>>
    /\ \E o \in db.orders :
          /\ o \in ui.orders
          /\ ~\E e \in db.patient_events :
                e.entity_table = "orders" /\ e.entity_id = o.id

\* the tables the handlers write apart from the audit log
WrittenTables == Tables \ {"patient_events"}

\* C8: whenever a handler's write adds or changes rows of a table, a
\* patient_events insert with an actor type and an event type is issued for
\* that table's rows.
EveryWriteIsLogged ==
    [][ \A table \in WrittenTables :
          db'[table] # db[table]
          => \E t \in tasks' :
                /\ t.pc = "logEvent"
                /\ t.event.entity_table = table
                /\ t.event.actor_type \in {"human", "ai"}
                /\ t.event.event_type # ""
      ]_vars

----------------------------------------------------------------------------
(* What a successful AI round trip stores. *)

\* C9: a runAi whose AI function call succeeds issues one ai_runs insert,
\* carrying the encounter selected at its start, the provider, the model,
\* the context it sent as prompt and the function's result as response; and
\* ai_runs grows only by that insert settling, one row at a time, after which
\* the invocation never stands before the call or the insert again.
OneAiRunPerSuccessfulCall ==
    [][ /\ (RunAi /\ tasks' # tasks)
           => \E t \in tasks' \ tasks :
                 /\ t.op = "runAi" /\ t.pc = "invoke"
                 /\ t.enc = ui.selectedEncounterId
        /\ \A t \in tasks, r \in AiResults :
              RunAiInvokeSettle(t, "none", r)
              => \E t2 \in tasks' :
                    /\ tasks' = (tasks \ {t}) \cup {t2}
                    /\ t2.op = "runAi" /\ t2.pc = "insertRun"
                    /\ t2.row = [ encounter_id |-> t.enc, provider |-> "gemini",
                                  model |-> "gemini-2.0-flash", status |-> "completed",
                                  prompt |-> t.context, response |-> r ]
        /\ db'.ai_runs # db.ai_runs
           => \E t \in tasks :
                 /\ t.op = "runAi" /\ t.pc = "insertRun"
                 /\ db'.ai_runs =
                       db.ai_runs \cup {[id |-> Cardinality(db.ai_runs) + 1] @@ t.row}
                 /\ \A t2 \in tasks' :
                       t2.op = "runAi" => t2.pc \notin {"invoke", "insertRun"}
      ]_vars

\* a second run is stored for the encounter, with the notes sent as context
\* in its prompt and the function's result as its response
SecondRunStored ==
    \E r \in db.ai_runs :
        /\ r.id = 2 /\ r.encounter_id = 1
        /\ r.prompt # NullRow /\ r.prompt.notes # {}
        /\ r.response = WellFormed

\* the stored run an invocation of runAi works for
RunOf(t) == CHOOSE r \in db.ai_runs : r.id = t.aiRunId

\* C10: in a runAi whose inserts succeed, the ai_suggestions insert writes one
\* row of type diagnosis per returned diagnosis and one of type order per
\* returned recommendation, all with the id of the ai_runs row this runAi
\* created; and the ddx_entries insert, a separate and later one, writes one
\* row of source "ai" per returned diagnosis, with its name, prob and reason.
RunAiFansOut ==
    [][ \A t \in tasks :
          /\ RunAiInsertRunSettle(t, TRUE)
             => \E t2 \in tasks' :
                   /\ t2.op = "runAi" /\ t2.pc = "logEvent"
                   /\ {t2.aiRunId} = {r.id : r \in db'.ai_runs \ db.ai_runs}
          /\ RunAiInsertSuggestionsSettle(t, TRUE)
             => LET new == db'.ai_suggestions \ db.ai_suggestions
                    D == Diagnoses(RunOf(t).response)
                    R == Recommendations(RunOf(t).response)
                IN  /\ \E r \in db.ai_runs : r.id = t.aiRunId /\ r.encounter_id = t.enc
                    /\ \A s \in new : s.ai_run_id = t.aiRunId /\ s.encounter_id = t.enc
                    /\ Cardinality({s \in new : s.suggestion_type = "diagnosis"}) = Len(D)
                    /\ Cardinality({s \in new : s.suggestion_type = "order"}) = Len(R)
                    /\ Cardinality(new) = Len(D) + Len(R)
                    /\ \A i \in 1..Len(D) :
                          \E s \in new : s.suggestion_type = "diagnosis"
                                          /\ s.name = D[i].name
                    /\ \A i \in 1..Len(R) :
                          \E s \in new : s.suggestion_type = "order"
                                          /\ s.name = R[i].name
                    /\ db'.ddx_entries = db.ddx_entries
          /\ RunAiInsertDdxSettle(t, TRUE)
             => LET new == db'.ddx_entries \ db.ddx_entries
                    D == Diagnoses(RunOf(t).response)
                    R == Recommendations(RunOf(t).response)
                IN  /\ Cardinality(new) = Len(D)
                    /\ \A d \in new : d.source = "ai" /\ d.encounter_id = t.enc
                    /\ \A i \in 1..Len(D) :
                          \E d \in new :
                             /\ d.name = D[i].name
                             /\ d.prob = (IF D[i].prob = -2 THEN NullNum ELSE D[i].prob)
                             /\ d.reason = (IF D[i].reason = Undefined THEN NullStr
                                                                       ELSE D[i].reason)
                    /\ Cardinality({s \in db.ai_suggestions : s.ai_run_id = t.aiRunId})
                          = Len(D) + Len(R)
                    /\ db'.ai_suggestions = db.ai_suggestions
      ]_vars

\* a second round trip stored everything: run 2, its three suggestions, and
\* its AI DDX row with the returned diagnosis' name and prob
RunFannedOut ==
    /\ \E r \in db.ai_runs : r.id = 2
    /\ Cardinality({s \in db.ai_suggestions : s.ai_run_id = 2}) = 3
    /\ \E d \in db.ddx_entries :
          d.id = 2 /\ d.source = "ai" /\ d.name = <<"AMI">> /\ d.prob = 85

----------------------------------------------------------------------------
(* Failures of runAi's inserts. *)

\* C11: when runAi's ddx_entries insert fails, the store keeps the ai_runs
\* row and the ai_suggestions rows already written, no alert is raised, and
\* runAi still reloads the encounter data and then the latest AI state.
DdxInsertFailureTolerated ==
    [][ \A t \in tasks :
          /\ RunAiInsertDdxSettle(t, FALSE)
             => /\ db' = db
                /\ \E r \in db'.ai_runs : r.id = t.aiRunId
                /\ alert' = "none"
                /\ Reloading(tasks', t)
          /\ (t.op = "runAi" /\ \E failed \in SUBSET ReadTables :
                                   FetchEncounterDataSettle(t, failed))
             => [op |-> "runAi", pc |-> "fetchLatestAi.run", enc |-> t.enc] \in tasks'
      ]_vars

\* a round trip ended whose ddx_entries insert failed: run 2 and its three
\* suggestions are stored and shown, no AI DDX row was added
RunShownWithoutItsDdx ==
    /\ alert = "none" /\ tasks = {}
    /\ Cardinality({s \in db.ai_suggestions : s.ai_run_id = 2}) = 3
    /\ Cardinality(db.ddx_entries) = Cardinality(InitDb.ddx_entries)
    /\ ui.latestAiRun # NullRow /\ ui.latestAiRun.id = 2
    /\ Cardinality(ui.aiSuggestions) = 3

\* C12: when runAi's ai_runs insert or its ai_suggestions insert fails, an
\* alert is raised and the round trip ends there: the failing insert leaves
\* the store as it is and runAi issues no later insert and no reload.
RunOrSuggestionFailureAborts ==
    [][ \A t \in tasks :
          (RunAiInsertRunSettle(t, FALSE) \/ RunAiInsertSuggestionsSettle(t, FALSE))
          => /\ alert' # "none"
             /\ db' = db
             /\ tasks' = tasks \ {t}
             /\ ~ui'.isAiLoading
      ]_vars

\* the ai_suggestions insert of run 2 failed: the alert is up, the run is
\* stored without suggestions or AI DDX rows and no runAi is left
SuggestionsInsertFailed ==
    /\ alert = "insert ai_suggestions failed"
    /\ \E r \in db.ai_runs : r.id = 2 /\ r.response = WellFormed
    /\ {s \in db.ai_suggestions : s.ai_run_id = 2} = {}
    /\ Cardinality(db.ddx_entries) = Cardinality(InitDb.ddx_entries)
    /\ \A t \in tasks : t.op # "runAi"

----------------------------------------------------------------------------
(* The state after an AI round trip. *)

\* the newest stored run
NewestRun == CHOOSE r \in db.ai_runs : \A x \in db.ai_runs : x.id <= r.id

\* a round trip of this session has returned with all its writes made: the
\* newest run is new and well formed, and its audit event, its suggestions
\* and its AI DDX rows are stored
RoundTripDone ==
    /\ tasks = {} /\ ~ui.isAiLoading
    /\ NewestRun.id > Cardinality(InitDb.ai_runs)
    /\ NewestRun.response = WellFormed
    /\ \E e \in db.patient_events : e.entity_table = "ai_runs" /\ e.entity_id = NewestRun.id
    /\ Cardinality({s \in db.ai_suggestions : s.ai_run_id = NewestRun.id})
          = Len(WellFormed.diagnoses) + Len(WellFormed.recommendations)
    /\ Cardinality({d \in db.ddx_entries : d.source = "ai"})
          = Cardinality(db.ai_runs) * Len(WellFormed.diagnoses)

\* C13: once a runAi round trip has returned with all its store operations
\* successful and nothing else in flight, latestAiRun is the run just created,
\* aiSuggestions are that run's stored suggestions, and the notes, orders,
\* results and ddx lists are the stored rows of the encounter, the new AI DDX
\* rows among them.
RunAiResynchronises ==
    RoundTripDone
    => /\ ui.latestAiRun # NullRow
       /\ ui.latestAiRun.id = NewestRun.id
       /\ ui.aiSuggestions = {s \in db.ai_suggestions : s.ai_run_id = NewestRun.id}
       /\ ui.notes = RowsOf("notes", NewestRun.encounter_id)
       /\ ui.orders = RowsOf("orders", NewestRun.encounter_id)
       /\ ui.results = RowsOf("results", NewestRun.encounter_id)
       /\ ui.ddx = RowsOf("ddx_entries", NewestRun.encounter_id)
       /\ \E d \in ui.ddx : d.source = "ai" /\ d.id > Cardinality(InitDb.ddx_entries)

\* the round trip is done and the lists show the stored note and both AI DDX rows
RoundTripShown ==
    /\ RoundTripDone
    /\ Cardinality(ui.ddx) = 2 /\ ui.notes # {}
    /\ Cardinality(ui.aiSuggestions) = 3

----------------------------------------------------------------------------
(* The context of a round trip. *)

\* C14: the context runAi sends to the AI function, and stores as the run's
\* prompt, is the projection of the notes, orders, results and ddx lists in
\* state when runAi is triggered; runAi issues no store read before the call.
ContextIsProjectionOfState ==
    [][ /\ (RunAi /\ tasks' # tasks)
           => /\ db' = db
              /\ \E t \in tasks' :
                    /\ tasks' = tasks \cup {t}
                    /\ t.pc = "invoke"
                    /\ t.context.encounter_id = ui.selectedEncounterId
                    /\ t.context.notes = {[content |-> n.content] : n \in ui.notes}
                    /\ t.context.orders =
                          {[code |-> o.code, name |-> o.name, status |-> o.status] :
                              o \in ui.orders}
                    /\ t.context.results = {[name |-> r.name] : r \in ui.results}
                    /\ t.context.ddx =
                          {[source |-> d.source, name |-> d.name, prob |-> d.prob,
                            reason |-> d.reason] : d \in ui.ddx}
        /\ \A t \in tasks :
              /\ (\E r \in AiResults : RunAiInvokeSettle(t, "none", r))
                 => \A t2 \in tasks' \ tasks : t2.row.prompt = t.context
              /\ RunAiInsertRunSettle(t, TRUE)
                 => \E r \in db'.ai_runs \ db.ai_runs : r.prompt = t.row.prompt
      ]_vars

\* a run was stored whose prompt has no note although the store holds a note
\* of its encounter
StoredNoteNotInPrompt ==
    \E r \in db.ai_runs :
        /\ r.id > Cardinality(InitDb.ai_runs)
        /\ r.prompt.notes = {}
        /\ RowsOf("notes", r.encounter_id) # {}

----------------------------------------------------------------------------
(* Applying AI order suggestions. *)

\* C15: a successful applyAiOrders inserts exactly one orders row for each
\* displayed suggestion of type order whose id is selected and none for any
\* other suggestion; the row carries the selected encounter id, the
\* suggestion's code and name, status "sent" and a payload naming the run and
\* the suggestion.
ApplyInsertsOneOrderPerPick ==
    [][ /\ (ApplyAiOrders /\ tasks' # tasks)
           => \E t \in tasks' :
                /\ tasks' = tasks \cup {t}
                /\ t.pc = "insert"
                /\ \A i \in DOMAIN t.rows :
                      \E s \in ui.aiSuggestions : t.rows[i].suggestion_id = s.id
                /\ \A s \in ui.aiSuggestions :
                      LET made == {i \in DOMAIN t.rows : t.rows[i].suggestion_id = s.id}
                      IN  IF s.suggestion_type = "order"
                             /\ s.id \in ui.selectedAiOrderSuggestionIds
                          THEN /\ Cardinality(made) = 1
                               /\ \A i \in made :
                                     t.rows[i] =
                                       [ encounter_id |-> ui.selectedEncounterId,
                                         code |-> s.code, name |-> s.name,
                                         status |-> "sent",
                                         from_ai_run_id |-> s.ai_run_id,
                                         suggestion_id |-> s.id ]
                          ELSE made = {}
        /\ \A t \in tasks :
              ApplyAiOrdersInsertSettle(t, TRUE)
              => /\ db.orders \subseteq db'.orders
                 /\ Cardinality(db'.orders \ db.orders) = Len(t.rows)
                 /\ \A i \in DOMAIN t.rows :
                       Cardinality({o \in db'.orders \ db.orders :
                                      [x \in DOMAIN t.rows[i] |-> o[x]] = t.rows[i]}) = 1
      ]_vars

\* of the three displayed suggestions only the ticked order suggestion 3
\* became an order
OnlyThePickApplied ==
    /\ Cardinality(db.orders) = 1
    /\ \E o \in db.orders :
          /\ o.suggestion_id = 3 /\ o.from_ai_run_id = 1
          /\ o.name = <<"CT">> /\ o.code = NullStr /\ o.status = "sent"
    /\ Cardinality(ui.aiSuggestions) = 3

\* C16: applyAiOrders inserts the orders, then logs one audit event per
\* inserted order, one after another, then clears the selected set, then
\* reloads the encounter: no reload is issued before the last audit insert
\* has settled. When the orders insert fails, no audit event is inserted, no
\* reload is issued and the selected set is kept.
ApplyStepsInOrder ==
    [][ \A t \in tasks :
          /\ ApplyAiOrdersInsertSettle(t, TRUE)
             => /\ ui' = ui
                /\ \E t2 \in tasks' :
                      /\ tasks' = (tasks \ {t}) \cup {t2}
                      /\ t2.pc = "logEvent"
                      /\ t2.event.entity_id = Cardinality(db.orders) + 1
                      /\ t2.rest = [i \in 1..(Len(t.rows) - 1) |->
                                      Cardinality(db.orders) + 1 + i]
          /\ ApplyAiOrdersInsertSettle(t, FALSE)
             => /\ db' = db
                /\ ui' = ui
                /\ tasks' = tasks \ {t}
                /\ alert' # "none"
          /\ (ApplyAiOrdersLogEventSettle(t, TRUE) \/ ApplyAiOrdersLogEventSettle(t, FALSE))
             => /\ db'.orders = db.orders
                /\ IF t.rest # <<>>
                   THEN /\ ui' = ui
                        /\ \E t2 \in tasks' :
                              /\ tasks' = (tasks \ {t}) \cup {t2}
                              /\ t2.pc = "logEvent"
                              /\ t2.event.entity_id = Head(t.rest)
                              /\ t2.rest = Tail(t.rest)
                   ELSE /\ ui'.selectedAiOrderSuggestionIds = {}
                        /\ Reloading(tasks', t)
                        /\ \A t2 \in tasks' \ tasks : t2.pc = "fetchEncounterData"
      ]_vars

\* both order suggestions were applied: two orders and their two audit
\* events are stored, the selected set is empty and the reload has shown
\* the orders
BothPicksAppliedAndShown ==
    /\ tasks = {}
    /\ Cardinality(db.orders) = 2
    /\ Cardinality({e \in db.patient_events :
                        e.event_type = "order_created_from_ai"}) = 2
    /\ ui.selectedAiOrderSuggestionIds = {}
    /\ ui.orders = db.orders

----------------------------------------------------------------------------
(* What the application does to the store. *)

\* C17: every orders row in the store has status "sent": addOrder and
\* applyAiOrders create orders with that status and nothing changes it.
OrdersAreSent == \A o \in db.orders : o.status = "sent"

\* an order typed by the user is stored
TypedOrderStored ==
    \E o \in db.orders :
        o.suggestion_id = Null /\ o.code = <<"A">> /\ o.name = <<"B">> /\ o.status = "sent"

\* C18: no step deletes a row and only notes are updated in place: every
\* row of patients, encounters, orders, results, ddx_entries, ai_runs,
\* ai_suggestions and patient_events stays in the store as it is, every note
\* stays under its id, and a note changes only when saveNote's update of that
\* note settles.
StoreOnlyGrows ==
    [][ /\ \A table \in Tables \ {"notes"} : db[table] \subseteq db'[table]
        /\ \A n \in db.notes : \E n2 \in db'.notes : n2.id = n.id
        /\ \A n \in db.notes \ db'.notes :
              \E t \in tasks :
                  /\ UpdateSettle(t, TRUE)
                  /\ t.op = "saveNote" /\ t.id = n.id
                  /\ Cardinality(db'.notes) = Cardinality(db.notes)
      ]_vars

\* saveNote has rewritten note 1 in place and logged it
NoteRewritten ==
    /\ db.notes = {[id |-> 1, encounter_id |-> 1, content |-> <<"b">>]}
    /\ \E e \in db.patient_events : e.event_type = "note_updated" /\ e.entity_id = 1

----------------------------------------------------------------------------
(* Failed store operations. *)

\* a store operation of invocation t other than an audit insert settles
\* with an error (the ddx_entries insert of runAi, tolerated by the round
\* trip, left aside)
ReadFails(t) ==
    \/ FetchPatientsSettle(t, FALSE)
    \/ FetchEncountersSettle(t, FALSE)
    \/ \E failed \in (SUBSET ReadTables) \ {{}} : FetchEncounterDataSettle(t, failed)
    \/ FetchLatestAiRunSettle(t, FALSE)
    \/ FetchLatestAiSuggestionsSettle(t, FALSE)

PrimaryWriteFails(t) ==
    \/ CreatePatientInsertSettle(t, FALSE)
    \/ CreateEncounterInsertSettle(t, FALSE)
    \/ InsertSettle(t, FALSE)
    \/ UpdateSettle(t, FALSE)

WriteFails(t) ==
    \/ PrimaryWriteFails(t)
    \/ RunAiInsertRunSettle(t, FALSE)
    \/ RunAiInsertSuggestionsSettle(t, FALSE)
    \/ ApplyAiOrdersInsertSettle(t, FALSE)

\* C19: every failed store operation other than an audit insert, reads
\* (fetchPatients, fetchEncounters, the four selects of fetchEncounterData,
\* fetchLatestAi) and writes alike, alerts the user and aborts the operation
\* that issued it: the store is left as it is and nothing more is issued or
\* shown by that operation.
StoreFailuresAlertAndAbort ==
    [][ \A t \in tasks :
          (ReadFails(t) \/ WriteFails(t))
          => /\ alert' # "none"
             /\ db' = db
             /\ tasks' = tasks \ {t}
      ]_vars

\* C20: when the insert or update issued by createPatient, createEncounter,
\* saveNote, addOrder, addResult or addHumanDdx fails, the handler alerts and
\* returns: it issues no further store request, the store is as before, and
\* the selection, the form inputs and the open note editor are as they were.
FailedPrimaryWriteIsTerminal ==
    [][ \A t \in tasks :
          PrimaryWriteFails(t)
          => /\ alert' = FailureAlert(t.op)
             /\ tasks' = tasks \ {t}
             /\ db' = db
             /\ ui' = ui
      ]_vars

\* the update of note 1 failed: the alert is up, the editor is still open on
\* the typed text and the store has the old note
NoteUpdateFailedEditorOpen ==
    /\ alert = "save note failed"
    /\ ui.editingNote = [id |-> 1, content |-> <<"b">>]
    /\ db = InitDb
    /\ \A t \in tasks : t.op # "saveNote"

----------------------------------------------------------------------------
(* Loading an encounter. *)

\* C21: the four selects of one fetchEncounterData may be answered in any
\* order: while one of them is unanswered the four lists stay as they were,
\* and with the last answer all four are replaced together by what the
\* completed load yields, which depends only on which selects failed and not
\* on the order of the answers.
LoadIsOrderFree ==
    [][ \A t \in tasks, table \in ReadTables, ok \in BOOLEAN :
          ResponseArrives(t, table, ok)
          => LET others == ReadTables \ {table}
                 failed == {x \in others : t.got[x].state = "error"}
                              \cup (IF ok THEN {} ELSE {table})
             IN  IF \E x \in others : t.got[x] = Unanswered
                 THEN Lists(ui') = Lists(ui) /\ ui'.isBusy
                 ELSE /\ ui'.notes = Fetched("notes", t.enc, failed)
                      /\ ui'.orders = Fetched("orders", t.enc, failed)
                      /\ ui'.results = Fetched("results", t.enc, failed)
                      /\ ui'.ddx = Fetched("ddx_entries", t.enc, failed)
                      /\ ~ui'.isBusy
      ]_vars

\* three selects are answered, the stored note and DDX row among them, the
\* notes select last, and the lists still show the empty lists from before
AnswersHeldBack ==
    \E t \in tasks :
        /\ t.pc = "Promise.all"
        /\ {x \in ReadTables : t.got[x] = Unanswered} = {"orders"}
        /\ t.got["notes"].data # {} /\ t.got["ddx_entries"].data # {}
        /\ ui.notes = {} /\ ui.ddx = {}

----------------------------------------------------------------------------
(* Answers of the AI function. *)

\* C22: a failed call of the AI function (a non-2xx answer) makes runAi alert
\* and return with nothing stored, and so does an answer that is not of the
\* shape {diagnoses, recommendations}: for such an answer no ai_runs row is
\* stored, and its round trip ends in an alert.
AiFailuresSurfaceAndPersistNothing ==
    [][ \A t \in tasks :
          /\ (\E f \in AiFailures : RunAiInvokeSettle(t, f, [kind |-> "null"]))
             => /\ alert' # "none"
                /\ db' = db
                /\ tasks' = tasks \ {t}
          /\ RunAiInsertRunSettle(t, TRUE) => t.result.kind = "object"
          /\ (RunAiInsertRunSettle(t, FALSE) /\ t.result.kind # "object")
             => alert' # "none" /\ db' = db
      ]_vars

----------------------------------------------------------------------------
(* Saving a note. *)

\* C23: saveNote does nothing without a selected encounter or an edited note.
\* For an edited note with an id it updates exactly that stored note in place
\* (the number of notes is unchanged) and logs a note_updated event naming it;
\* for one without an id it inserts exactly one note for the selected
\* encounter and logs a note_created event naming the new row.  The editor is
\* closed and the reload issued only after the write succeeded: a failed
\* write leaves the editor open and issues nothing.
SaveNoteEditsOrCreates ==
    [][ /\ SaveNote
           => IF ui.selectedEncounterId = Null \/ ui.editingNote = NullRow
              THEN UNCHANGED vars
              ELSE /\ db' = db /\ ui' = ui
                   /\ \E t \in tasks' :
                         /\ tasks' = tasks \cup {t}
                         /\ t.op = "saveNote"
                         /\ t.pc = IF ui.editingNote.id # Null THEN "update" ELSE "insert"
                         /\ t.id = ui.editingNote.id
                         /\ t.row = [encounter_id |-> ui.selectedEncounterId,
                                     content |-> ui.editingNote.content]
        /\ \A t \in tasks :
              /\ UpdateSettle(t, TRUE)
                 => /\ Cardinality(db'.notes) = Cardinality(db.notes)
                    /\ \A n \in db.notes : n.id # t.id => n \in db'.notes
                    /\ [id |-> t.id] @@ t.row \in db'.notes
                    /\ ui' = ui
                    /\ \E t2 \in tasks' :
                          /\ tasks' = (tasks \ {t}) \cup {t2}
                          /\ t2.pc = "logEvent"
                          /\ t2.event = EventRow(t.enc, "human", "note_updated", "notes", t.id)
              /\ (t.op = "saveNote" /\ InsertSettle(t, TRUE))
                 => /\ db.notes \subseteq db'.notes
                    /\ \E n \in db'.notes :
                          /\ db'.notes \ db.notes = {n}
                          /\ n.encounter_id = t.enc /\ n.content = t.row.content
                          /\ \E t2 \in tasks' :
                                /\ tasks' = (tasks \ {t}) \cup {t2}
                                /\ t2.pc = "logEvent"
                                /\ t2.event =
                                      EventRow(t.enc, "human", "note_created", "notes", n.id)
                    /\ ui' = ui
              /\ (t.op = "saveNote" /\ (UpdateSettle(t, FALSE) \/ InsertSettle(t, FALSE)))
                 => /\ db' = db /\ ui' = ui
                    /\ tasks' = tasks \ {t}
              /\ (t.op = "saveNote"
                    /\ (LogEventSettle(t, TRUE) \/ LogEventSettle(t, FALSE)))
                 => /\ ui'.editingNote = NullRow
                    /\ Reloading(tasks', t)
                    /\ db'.notes = db.notes
      ]_vars

\* a new note was saved: note 2 and its note_created event are stored, the
\* editor is closed and the reload shows both notes
NewNoteSavedAndShown ==
    /\ tasks = {}
    /\ [id |-> 2, encounter_id |-> 1, content |-> <<"b">>] \in db.notes
    /\ \E e \in db.patient_events : e.event_type = "note_created" /\ e.entity_id = 2
    /\ ui.editingNote = NullRow
    /\ ui.notes = db.notes

----------------------------------------------------------------------------
(* The audit log and the rows it names. *)

\* C24: every patient_events row that carries an entity reference names a
\* row that is stored in the named table and belongs to the encounter of the
\* event.
EventsNameRowsOfTheirEncounter ==
    \A e \in db.patient_events :
        e.entity_table \in Tables
        => \E r \in db[e.entity_table] :
              r.id = e.entity_id /\ r.encounter_id = e.encounter_id

----------------------------------------------------------------------------
(* What the component shows. *)

\* C25: the selected encounter, if any, is an encounter of the selected
\* patient.
SelectedEncounterIsOfSelectedPatient ==
    \/ ui.selectedEncounterId = Null
    \/ \E e \in db.encounters :
          e.id = ui.selectedEncounterId /\ e.patient_id = ui.selectedPatientId

\* the rows of the four lists and of the AI panel shown in the component
Shown ==
    ui.notes \cup ui.orders \cup ui.results \cup ui.ddx \cup ui.aiSuggestions
    \cup (IF ui.latestAiRun = NullRow THEN {} ELSE {ui.latestAiRun})

\* C26: once no request is in flight, the notes, orders, results, ddx, latest
\* AI run and AI suggestions shown all belong to the selected encounter, and
\* nothing is shown when no encounter is selected.
QuiescentViewsAreOfSelectedEncounter ==
    tasks = {} => \A r \in Shown : r.encounter_id = ui.selectedEncounterId

\* C27: the AI suggestions shown belong to the latest AI run shown: without a
\* run none is shown, and otherwise each has the run's id as its ai_run_id.
SuggestionsAreOfLatestRun ==
    IF ui.latestAiRun = NullRow
    THEN ui.aiSuggestions = {}
    ELSE \A s \in ui.aiSuggestions : s.ai_run_id = ui.latestAiRun.id

\* C28: every selected AI order suggestion id is the id of a shown suggestion
\* of type order.
SelectedIdsAreShownOrders ==
    ui.selectedAiOrderSuggestionIds
       \subseteq {s.id : s \in {x \in ui.aiSuggestions : x.suggestion_type = "order"}}

----------------------------------------------------------------------------
(* One AI round trip at a time. *)

\* the runAi invocations in flight
RoundTrips(ts) == {t \in ts : t.op = "runAi"}

\* C29: runAi invoked while isAiLoading is set, or with no encounter selected,
\* returns without a call of the AI function and without a write; so at most
\* one round trip is in flight, and isAiLoading is set exactly while it is.
OneRoundTripAtATime ==
    [][ /\ (RunAi /\ (ui.isAiLoading \/ ui.selectedEncounterId = Null))
           => UNCHANGED vars
        /\ Cardinality(RoundTrips(tasks')) <= 1
        /\ ui'.isAiLoading <=> RoundTrips(tasks') # {}
        /\ (ui.isAiLoading /\ ui'.isAiLoading) => RoundTrips(tasks') \ tasks
                                                     \subseteq {t \in tasks' : t.pc # "invoke"}
      ]_vars

\* a round trip is past its AI call with an encounter selected, no alert up
\* and room for another request and another write
SecondClickPossible ==
    /\ alert = "none"
    /\ ui.isAiLoading /\ ui.selectedEncounterId # Null
    /\ \E t \in tasks : t.op = "runAi" /\ t.pc = "insertRun"
    /\ Room(1) /\ CanWrite

\* C30: a runAi that has set isAiLoading sets it back to false on every way
\* out (AI call error, thrown exception, failure of the ai_runs, ai_suggestions
\* or ddx_entries insert, success), given that each request it awaits settles.
AiLoadingEnds == ui.isAiLoading ~> ~ui.isAiLoading

\* a round trip has stored its run and returned, and the button is enabled
ButtonEnabledAfterRun ==
    /\ ~ui.isAiLoading
    /\ tasks = {}
    /\ Cardinality(db.ai_runs) > Cardinality(InitDb.ai_runs)
    /\ alert = "none"

====
